---- MODULE Spec2Model ----
(***************************************************************************)
(* A model of the real-time room engine: the TimedRounds timing machine    *)
(* (pkg/realtime/timed_rounds.go), the word-unscramble Game                *)
(* (internal/game/store.go), the explain Game (internal/explain/game.go),  *)
(* the RoomStore and its background loop (pkg/realtime/store.go) and the   *)
(* Broadcaster (pkg/realtime/broadcaster.go).                              *)
(*                                                                         *)
(* Times are naturals; 0 is the zero time.Time (IsZero), real times are    *)
(* >= 1.  Durations are naturals in the same unit.                         *)
(***************************************************************************)
EXTENDS Naturals, Integers, Sequences, FiniteSets, TLC

VARIABLES
    tr,        \* a bare realtime.TimedRounds (the timing machine on its own)
    g,         \* a game.Game (the word-unscramble game)
    prevSnap,  \* the latest Snapshot result, while no other call has followed it
    clock,     \* the wall clock, time.Now()
    last,      \* the last call made: operation, arguments and return values
    eg,        \* an explain.Game (the explain game)
    ewon,      \* the round of eg in which a SubmitGuess last returned true
    mu,        \* the holder of the explain game's lock g.mu
    hnd,       \* a request handler's thread working on the explain game
    elp,       \* the explain room's loop goroutine
    rs,        \* the RoomStore's entries for one room id: loops[id], wakes[id]
    spawning,  \* RunLoop callers that registered and have yet to run "go func()"
    gor,       \* the loop goroutines of the room id
    bc,        \* a realtime.Broadcaster and the channels Subscribe has made
    rooms,     \* a RoomStore's rooms map over several room ids
    lk         \* the locks s.mu, g.mu, b.mu of one room and the threads using them

vars == <<tr, g, prevSnap, clock, last, eg, ewon, mu, hnd, elp, rs, spawning, gor,
          bc, rooms, lk>>

\* What each part of the model leaves alone.
explainLoopVars == <<mu, hnd, elp>>
storeVars == <<rs, spawning, gor>>
fanoutVars == <<bc, rooms, lk>>
trOther == <<g, prevSnap, eg, ewon, explainLoopVars, storeVars, fanoutVars>>
gameOther == <<tr, eg, ewon, explainLoopVars, storeVars, fanoutVars>>
explainOther == <<tr, g, prevSnap, storeVars, fanoutVars>>

(***************************************************************************)
(* Bounds of the model.                                                    *)
(***************************************************************************)
MaxTime == 7
MaxDuration == 2
MaxCooldown == 2
MaxRounds == 2
MaxPlayers == 2
MaxGoroutines == 2

\* One unit of time is five seconds: the cooldown between rounds
\* (realtime.DefaultCooldown, 5s) is 1, and the shortest round createGame
\* allows (10s) is 2.
DefaultCooldown == 1
MinDuration == 2

Times == 1..MaxTime

\* again: the call repeats the call before it (an Advance with the same now) and
\* that call had produced a transition.
NoCall == [op |-> "none", now |-> 0, advanced |-> FALSE, finished |-> FALSE,
           wake |-> 0, active |-> FALSE, again |-> FALSE]

(***************************************************************************)
(* realtime.TimedRounds                                                    *)
(***************************************************************************)
IsZero(t) == t = 0

\* time.Time.After / time.Time.Before
After(a, b) == a > b
Before(a, b) == a < b

NewTimedRounds(rounds, duration, cooldown) ==
    [Duration |-> duration, Cooldown |-> cooldown, Rounds |-> rounds,
     CurrentRound |-> 0, RoundStarted |-> 0, RoundEndedAt |-> 0]

\* TimedRounds.NextWake: <<next, active>>
NextWake(t, now) ==
    IF IsZero(t.RoundStarted) THEN <<0, FALSE>>
    ELSE IF IsZero(t.RoundEndedAt) THEN <<t.RoundStarted + t.Duration, TRUE>>
    ELSE LET next == t.RoundEndedAt + t.Cooldown
         IN  IF After(now, next) THEN <<now, TRUE>> ELSE <<next, TRUE>>

\* Mutant of Advance: the next round is started on the schedule (the end of the
\* cooldown) instead of at now.
AdvanceOnSchedule(t, now) ==
    IF IsZero(t.RoundStarted) THEN [t |-> t, advanced |-> FALSE, finished |-> FALSE]
    ELSE LET roundEnd == t.RoundStarted + t.Duration
         IN  IF IsZero(t.RoundEndedAt) /\ After(now, roundEnd)
             THEN [t |-> [t EXCEPT !.RoundEndedAt = roundEnd],
                   advanced |-> TRUE, finished |-> FALSE]
             ELSE IF IsZero(t.RoundEndedAt)
             THEN [t |-> t, advanced |-> FALSE, finished |-> FALSE]
             ELSE IF Before(now, t.RoundEndedAt + t.Cooldown)
             THEN [t |-> t, advanced |-> FALSE, finished |-> FALSE]
             ELSE IF t.CurrentRound >= t.Rounds
             THEN [t |-> t, advanced |-> TRUE, finished |-> TRUE]
             ELSE [t |-> [t EXCEPT !.CurrentRound = @ + 1,
                                   !.RoundStarted = t.RoundEndedAt + t.Cooldown,
                                   !.RoundEndedAt = 0],
                   advanced |-> TRUE, finished |-> FALSE]

\* Mutant of Advance: the next round is started without the test
\* CurrentRound >= Rounds.
AdvanceNoLastRound(t, now) ==
    IF IsZero(t.RoundStarted) THEN [t |-> t, advanced |-> FALSE, finished |-> FALSE]
    ELSE LET roundEnd == t.RoundStarted + t.Duration
         IN  IF IsZero(t.RoundEndedAt) /\ After(now, roundEnd)
             THEN [t |-> [t EXCEPT !.RoundEndedAt = roundEnd],
                   advanced |-> TRUE, finished |-> FALSE]
             ELSE IF IsZero(t.RoundEndedAt)
             THEN [t |-> t, advanced |-> FALSE, finished |-> FALSE]
             ELSE IF Before(now, t.RoundEndedAt + t.Cooldown)
             THEN [t |-> t, advanced |-> FALSE, finished |-> FALSE]
             ELSE [t |-> [t EXCEPT !.CurrentRound = @ + 1,
                                   !.RoundStarted = now,
                                   !.RoundEndedAt = 0],
                   advanced |-> TRUE, finished |-> FALSE]

\* Mutant of Advance: reporting finished clears RoundEndedAt, as starting a
\* next round does.
AdvanceClearsOnFinish(t, now) ==
    IF IsZero(t.RoundStarted) THEN [t |-> t, advanced |-> FALSE, finished |-> FALSE]
    ELSE LET roundEnd == t.RoundStarted + t.Duration
         IN  IF IsZero(t.RoundEndedAt) /\ After(now, roundEnd)
             THEN [t |-> [t EXCEPT !.RoundEndedAt = roundEnd],
                   advanced |-> TRUE, finished |-> FALSE]
             ELSE IF IsZero(t.RoundEndedAt)
             THEN [t |-> t, advanced |-> FALSE, finished |-> FALSE]
             ELSE IF Before(now, t.RoundEndedAt + t.Cooldown)
             THEN [t |-> t, advanced |-> FALSE, finished |-> FALSE]
             ELSE IF t.CurrentRound >= t.Rounds
             THEN [t |-> [t EXCEPT !.RoundEndedAt = 0],
                   advanced |-> TRUE, finished |-> TRUE]
             ELSE [t |-> [t EXCEPT !.CurrentRound = @ + 1,
                                   !.RoundStarted = now,
                                   !.RoundEndedAt = 0],
                   advanced |-> TRUE, finished |-> FALSE]

\* Mutant of Advance: the next round is started as soon as the round has
\* ended, without the cooldown test.
AdvanceSkipsCooldown(t, now) ==
    IF IsZero(t.RoundStarted) THEN [t |-> t, advanced |-> FALSE, finished |-> FALSE]
    ELSE LET roundEnd == t.RoundStarted + t.Duration
         IN  IF IsZero(t.RoundEndedAt) /\ After(now, roundEnd)
             THEN [t |-> [t EXCEPT !.RoundEndedAt = roundEnd],
                   advanced |-> TRUE, finished |-> FALSE]
             ELSE IF IsZero(t.RoundEndedAt)
             THEN [t |-> t, advanced |-> FALSE, finished |-> FALSE]
             ELSE IF t.CurrentRound >= t.Rounds
             THEN [t |-> t, advanced |-> TRUE, finished |-> TRUE]
             ELSE [t |-> [t EXCEPT !.CurrentRound = @ + 1,
                                   !.RoundStarted = now,
                                   !.RoundEndedAt = 0],
                   advanced |-> TRUE, finished |-> FALSE]

\* TimedRounds.Advance: the new timing state and (advanced, finished)
Advance(t, now) ==
    IF IsZero(t.RoundStarted) THEN [t |-> t, advanced |-> FALSE, finished |-> FALSE]
    ELSE LET roundEnd == t.RoundStarted + t.Duration
         IN  IF IsZero(t.RoundEndedAt) /\ After(now, roundEnd)
             THEN [t |-> [t EXCEPT !.RoundEndedAt = roundEnd],
                   advanced |-> TRUE, finished |-> FALSE]
             ELSE IF IsZero(t.RoundEndedAt)
             THEN [t |-> t, advanced |-> FALSE, finished |-> FALSE]
             ELSE IF Before(now, t.RoundEndedAt + t.Cooldown)
             THEN [t |-> t, advanced |-> FALSE, finished |-> FALSE]
             ELSE IF t.CurrentRound >= t.Rounds
             THEN [t |-> t, advanced |-> TRUE, finished |-> TRUE]
             ELSE [t |-> [t EXCEPT !.CurrentRound = @ + 1,
                                   !.RoundStarted = now,
                                   !.RoundEndedAt = 0],
                   advanced |-> TRUE, finished |-> FALSE]

\* TimedRounds.Start
TimedRoundsStart(t, now) ==
    [t EXCEPT !.CurrentRound = 1, !.RoundStarted = now, !.RoundEndedAt = 0]

(***************************************************************************)
(* The timing machine on its own: any caller, any now.                     *)
(***************************************************************************)
InitTR ==
    /\ tr \in {NewTimedRounds(r, d, c) :
                 r \in 1..MaxRounds, d \in 1..MaxDuration, c \in 1..MaxCooldown}
    /\ clock = 1
    /\ last = NoCall
    /\ g = "none"
    /\ prevSnap = "none"
    /\ eg = "none"
    /\ ewon = 0
    /\ mu = "none"
    /\ hnd = "none"
    /\ elp = "none"
    /\ rs = "none"
    /\ spawning = 0
    /\ gor = "none"
    /\ bc = "none"
    /\ lk = "none"
    /\ rooms = "none"

TRStart(now) ==
    /\ tr' = TimedRoundsStart(tr, now)
    /\ last' = [NoCall EXCEPT !.op = "Start", !.now = now]
    /\ UNCHANGED <<clock, trOther>>

TRAdvance(now) ==
    LET r == Advance(tr, now)
    IN  /\ tr' = r.t
        /\ last' = [NoCall EXCEPT !.op = "Advance", !.now = now,
                                  !.advanced = r.advanced, !.finished = r.finished,
                                  !.again = (last.op = "Advance" /\ last.now = now
                                             /\ last.advanced)]
        /\ UNCHANGED <<clock, trOther>>

TRNextWake(now) ==
    LET r == NextWake(tr, now)
    IN  /\ last' = [NoCall EXCEPT !.op = "NextWake", !.now = now,
                                  !.wake = r[1], !.active = r[2]]
        /\ UNCHANGED <<tr, clock, trOther>>

\* The owning game ends a live round early by writing RoundEndedAt = now
\* (a correct guess).
TRSolve(now) ==
    /\ ~IsZero(tr.RoundStarted)
    /\ IsZero(tr.RoundEndedAt)
    /\ tr' = [tr EXCEPT !.RoundEndedAt = now]
    /\ last' = [NoCall EXCEPT !.op = "Solve", !.now = now]
    /\ UNCHANGED <<clock, trOther>>

NextTR ==
    \E now \in Times :
        \/ TRStart(now)
        \/ TRAdvance(now)
        \/ TRNextWake(now)
        \/ TRSolve(now)

SpecTR == InitTR /\ [][NextTR]_vars

(***************************************************************************)
(* Claims about TimedRounds.                                               *)
(***************************************************************************)

\* C2 as stated: when Advance(now) has just produced a transition, a second
\* Advance(now) with the same now returns (false,false) or (true,true) and
\* changes no field.
C2_AdvanceIdempotent ==
    [][(last'.op = "Advance" /\ last'.again)
         => (tr' = tr /\ last'.advanced = last'.finished)]_vars

\* The round was ended at its deadline by a call that came after the cooldown
\* had already elapsed too, and rounds remain.
LateRoundEnd(t, now) ==
    /\ ~IsZero(t.RoundEndedAt)
    /\ t.RoundEndedAt = t.RoundStarted + t.Duration
    /\ now >= t.RoundEndedAt + t.Cooldown
    /\ t.CurrentRound < t.Rounds

\* C2 amended: when Advance(now) has just produced a transition, a second
\* Advance(now) with the same now returns (false,false), or (true,true) when the
\* schedule is finished, and changes no field -- except when the first call ended
\* the round at its deadline with now already at or past deadline+Cooldown and
\* rounds remaining: then the second call starts the next round at now and
\* returns (true,false).
C2_AdvanceIdempotentUnlessLate ==
    [][(last'.op = "Advance" /\ last'.again)
         => IF LateRoundEnd(tr, last'.now)
            THEN /\ last'.advanced /\ ~last'.finished
                 /\ tr' = [tr EXCEPT !.CurrentRound = @ + 1,
                                     !.RoundStarted = last'.now,
                                     !.RoundEndedAt = 0]
            ELSE /\ tr' = tr
                 /\ last'.advanced = last'.finished
                 /\ (last'.finished => tr.CurrentRound >= tr.Rounds)]_vars

\* C2 witness: a second Advance with the same now, right after a transition,
\* that was a no-op.
C2_Witness ==
    last.op = "Advance" /\ last.again /\ ~last.advanced /\ ~last.finished

\* C3 as stated: in the round-active state Advance(now) ends the round at the
\* deadline RoundStarted+Duration for every now >= the deadline (now equal to
\* the deadline included), returning (true,false) and leaving CurrentRound and
\* RoundStarted alone; for every now before the deadline it returns
\* (false,false) and changes nothing.
C3_RoundEndsFromDeadline ==
    [][(last'.op = "Advance" /\ ~IsZero(tr.RoundStarted) /\ IsZero(tr.RoundEndedAt))
         => LET deadline == tr.RoundStarted + tr.Duration
            IN  IF last'.now >= deadline
                THEN /\ tr' = [tr EXCEPT !.RoundEndedAt = deadline]
                     /\ last'.advanced /\ ~last'.finished
                ELSE /\ tr' = tr
                     /\ ~last'.advanced /\ ~last'.finished]_vars

(***************************************************************************)
(* Strings: a guess is a sequence of characters; words are lower-case.     *)
(***************************************************************************)
Words == {<<"a", "b">>, <<"b", "a">>}

\* The raw texts a caller may submit.
Guesses == {<<" ", " ">>, <<" ", "A", " ", "b", " ">>, <<"b", "a">>}

\* Player ids as newID() hands them out; NoPlayer is the empty id "".
PlayerIDs == 1..MaxPlayers
NoPlayer == 0

\* strings.ToLower
ToLower(s) ==
    [i \in 1..Len(s) |-> CASE s[i] = "A" -> "a" [] s[i] = "B" -> "b" [] OTHER -> s[i]]

\* strings.TrimSpace
RECURSIVE TrimLeft(_)
TrimLeft(s) == IF s # << >> /\ Head(s) = " " THEN TrimLeft(Tail(s)) ELSE s
RECURSIVE TrimRight(_)
TrimRight(s) ==
    IF s # << >> /\ s[Len(s)] = " " THEN TrimRight(SubSeq(s, 1, Len(s) - 1)) ELSE s
TrimSpace(s) == TrimRight(TrimLeft(s))

\* strings.ReplaceAll(s, " ", "")
RemoveSpaces(s) == SelectSeq(s, LAMBDA c : c # " ")

\* The normalisation SubmitGuess applies to the guess.
Normalize(guess) == RemoveSpaces(ToLower(TrimSpace(guess)))

(***************************************************************************)
(* game.Game (internal/game/store.go)                                      *)
(***************************************************************************)
\* The id newID() gives the game, and the username the n-th joiner typed.
GameID == "game"
NameOf(id) == <<"user", id>>

NewGame(rounds, duration, cooldown, roundData) ==
    [ID |-> GameID,
     Status |-> "lobby",
     TimedRounds |-> NewTimedRounds(rounds, duration, cooldown),
     RoundData |-> roundData,
     RoundWinnerID |-> NoPlayer,
     RoundSolvedAt |-> 0,
     OwnerID |-> NoPlayer,
     Players |-> [p \in {} |-> [Username |-> NameOf(p), Points |-> 0, Progress |-> 0]]]

\* BuildRounds: the word pool is shuffled and round i takes pool[i % len(pool)]
WordPools == {<<<<"a", "b">>, <<"b", "a">>>>, <<<<"b", "a">>, <<"a", "b">>>>}
RoundDatas(rounds) ==
    {[i \in 1..rounds |-> pool[((i - 1) % Len(pool)) + 1]] : pool \in WordPools}

ResetProgress(players) ==
    [p \in DOMAIN players |-> [players[p] EXCEPT !.Progress = 0]]

\* newID: a fresh id; ids are opaque to the game, so the n-th id handed out in a
\* room is modelled as n.
newID(gm) == Cardinality(DOMAIN gm.Players) + 1

\* Mutant of AddPlayer: each new player takes the ownership.
AddPlayerTakesOwnership(gm, id) ==
    [gm EXCEPT !.Players = [p \in DOMAIN gm.Players \cup {id} |->
                               IF p = id
                               THEN [Username |-> NameOf(id), Points |-> 0,
                                     Progress |-> 0]
                               ELSE gm.Players[p]],
               !.OwnerID = id]

\* Game.AddPlayer, with id the fresh newID()
AddPlayer(gm, id) ==
    [gm EXCEPT !.Players = [p \in DOMAIN gm.Players \cup {id} |->
                               IF p = id
                               THEN [Username |-> NameOf(id), Points |-> 0,
                                     Progress |-> 0]
                               ELSE gm.Players[p]],
               !.OwnerID = IF gm.OwnerID = NoPlayer THEN id ELSE @]

\* Mutant of GameStart: the status is not checked.
GameStartAnyStatus(gm, now) ==
    [g |-> [gm EXCEPT !.Status = "in_progress",
                      !.TimedRounds = TimedRoundsStart(@, now),
                      !.RoundWinnerID = NoPlayer,
                      !.RoundSolvedAt = 0,
                      !.Players = ResetProgress(@)],
     err |-> ""]

\* Game.Start
GameStart(gm, now) ==
    IF gm.Status # "lobby" THEN [g |-> gm, err |-> "game already started"]
    ELSE [g |-> [gm EXCEPT !.Status = "in_progress",
                           !.TimedRounds = TimedRoundsStart(@, now),
                           !.RoundWinnerID = NoPlayer,
                           !.RoundSolvedAt = 0,
                           !.Players = ResetProgress(@)],
          err |-> ""]

\* Mutant of Restart: the scores are kept.
RestartKeepsPoints(gm, now, roundData) ==
    [gm EXCEPT !.RoundData = roundData,
               !.Status = "in_progress",
               !.TimedRounds = TimedRoundsStart(@, now),
               !.RoundWinnerID = NoPlayer,
               !.RoundSolvedAt = 0,
               !.Players = [p \in DOMAIN gm.Players |->
                              [gm.Players[p] EXCEPT !.Progress = 0]]]

\* Game.Restart, with roundData the fresh BuildRounds result
Restart(gm, now, roundData) ==
    [gm EXCEPT !.RoundData = roundData,
               !.Status = "in_progress",
               !.TimedRounds = TimedRoundsStart(@, now),
               !.RoundWinnerID = NoPlayer,
               !.RoundSolvedAt = 0,
               !.Players = [p \in DOMAIN gm.Players |->
                              [gm.Players[p] EXCEPT !.Points = 0, !.Progress = 0]]]

\* Mutant of advanceIfNeededLocked: the game is finished as soon as the last
\* round ends, without waiting for its cooldown.
advanceIfNeededLockedNoCooldown(gm, now) ==
    IF gm.Status # "in_progress" \/ IsZero(gm.TimedRounds.RoundStarted)
    THEN [g |-> gm, ret |-> FALSE]
    ELSE LET r == Advance(gm.TimedRounds, now)
             g1 == [gm EXCEPT !.TimedRounds = r.t]
         IN  IF r.finished \/ (r.advanced /\ ~IsZero(r.t.RoundEndedAt)
                                /\ r.t.CurrentRound >= r.t.Rounds)
             THEN [g |-> [g1 EXCEPT !.Status = "finished"], ret |-> TRUE]
             ELSE IF r.advanced
             THEN [g |-> [g1 EXCEPT !.RoundWinnerID = NoPlayer,
                                    !.RoundSolvedAt = 0,
                                    !.Players = ResetProgress(@)],
                   ret |-> TRUE]
             ELSE [g |-> g1, ret |-> FALSE]

\* Mutant of advanceIfNeededLocked: finishing the game resets the schedule.
advanceIfNeededLockedResetOnFinish(gm, now) ==
    IF gm.Status # "in_progress" \/ IsZero(gm.TimedRounds.RoundStarted)
    THEN [g |-> gm, ret |-> FALSE]
    ELSE LET r == Advance(gm.TimedRounds, now)
             g1 == [gm EXCEPT !.TimedRounds = r.t]
         IN  IF r.finished
             THEN [g |-> [g1 EXCEPT !.Status = "finished",
                                    !.TimedRounds.CurrentRound = 0],
                   ret |-> TRUE]
             ELSE IF r.advanced
             THEN [g |-> [g1 EXCEPT !.RoundWinnerID = NoPlayer,
                                    !.RoundSolvedAt = 0,
                                    !.Players = ResetProgress(@)],
                   ret |-> TRUE]
             ELSE [g |-> g1, ret |-> FALSE]

\* Game.advanceIfNeededLocked (and Game.AdvanceIfNeeded, which only locks)
advanceIfNeededLocked(gm, now) ==
    IF gm.Status # "in_progress" \/ IsZero(gm.TimedRounds.RoundStarted)
    THEN [g |-> gm, ret |-> FALSE]
    ELSE LET r == Advance(gm.TimedRounds, now)
             g1 == [gm EXCEPT !.TimedRounds = r.t]
         IN  IF r.finished
             THEN [g |-> [g1 EXCEPT !.Status = "finished"], ret |-> TRUE]
             ELSE IF r.advanced
             THEN [g |-> [g1 EXCEPT !.RoundWinnerID = NoPlayer,
                                    !.RoundSolvedAt = 0,
                                    !.Players = ResetProgress(@)],
                   ret |-> TRUE]
             ELSE [g |-> g1, ret |-> FALSE]

\* Game.currentRoundDataLocked: the round's word, << >> for Round{}
currentRoundDataLocked(gm) ==
    IF gm.TimedRounds.CurrentRound = 0
       \/ gm.TimedRounds.CurrentRound > Len(gm.RoundData)
    THEN << >>
    ELSE gm.RoundData[gm.TimedRounds.CurrentRound]

\* Game.SubmitGuess: the new game, correct and the error ("" for nil)
SubmitGuess(gm, playerID, guess, now) ==
    IF gm.Status # "in_progress"
    THEN [g |-> gm, ok |-> FALSE, err |-> "game not in progress"]
    ELSE IF IsZero(gm.TimedRounds.RoundStarted)
    THEN [g |-> gm, ok |-> FALSE, err |-> "round not started"]
    ELSE LET g1 == advanceIfNeededLocked(gm, now).g
             word == currentRoundDataLocked(g1)
             normalized == Normalize(guess)
             halfTime == g1.TimedRounds.RoundStarted + (g1.TimedRounds.Duration \div 2)
             points == IF Before(now, halfTime) THEN 2 ELSE 1
         IN  IF g1.Status # "in_progress" THEN [g |-> g1, ok |-> FALSE, err |-> ""]
             ELSE IF ~IsZero(g1.TimedRounds.RoundEndedAt)
             THEN [g |-> g1, ok |-> FALSE, err |-> ""]
             ELSE IF g1.RoundWinnerID # NoPlayer THEN [g |-> g1, ok |-> FALSE, err |-> ""]
             ELSE IF playerID \notin DOMAIN g1.Players
             THEN [g |-> g1, ok |-> FALSE, err |-> "player not found"]
             ELSE IF normalized = << >> \/ word = << >>
             THEN [g |-> g1, ok |-> FALSE, err |-> ""]
             ELSE IF normalized # word THEN [g |-> g1, ok |-> FALSE, err |-> ""]
             ELSE [g |-> [g1 EXCEPT !.Players[playerID].Points = @ + points,
                                    !.Players[playerID].Progress = Len(word),
                                    !.RoundWinnerID = playerID,
                                    !.RoundSolvedAt = now,
                                    !.TimedRounds.RoundEndedAt = now],
                   ok |-> TRUE, err |-> ""]

\* Mutant of NextTimer: the timer is derived from the round's deadline whether
\* or not the round has ended before it.
NextTimerFromDeadline(gm, now) ==
    IF gm.Status # "in_progress" THEN <<0, FALSE>>
    ELSE IF IsZero(gm.TimedRounds.RoundStarted) THEN <<0, FALSE>>
    ELSE IF IsZero(gm.TimedRounds.RoundEndedAt)
    THEN <<gm.TimedRounds.RoundStarted + gm.TimedRounds.Duration, TRUE>>
    ELSE <<gm.TimedRounds.RoundStarted + gm.TimedRounds.Duration
             + gm.TimedRounds.Cooldown, TRUE>>

\* Mutant of NextTimer: the status of the game is not looked at.
NextTimerNoStatus(gm, now) == NextWake(gm.TimedRounds, now)

\* Game.NextTimer: <<next, ok>>
NextTimer(gm, now) ==
    IF gm.Status # "in_progress" THEN <<0, FALSE>>
    ELSE NextWake(gm.TimedRounds, now)

\* Game.UpdateProgress
UpdateProgress(gm, playerID, correct, now) ==
    IF gm.Status # "in_progress" THEN gm
    ELSE LET g1 == advanceIfNeededLocked(gm, now).g
             word == currentRoundDataLocked(g1)
             c == IF correct < 0 THEN 0
                  ELSE IF correct > Len(word) THEN Len(word) ELSE correct
         IN  IF g1.Status # "in_progress" \/ ~IsZero(g1.TimedRounds.RoundEndedAt)
             THEN g1
             ELSE IF word = << >> THEN g1
             ELSE IF playerID \notin DOMAIN g1.Players THEN g1
             ELSE [g1 EXCEPT !.Players[playerID].Progress = c]

\* Game.IsOwner
IsOwner(gm, playerID) == playerID # NoPlayer /\ playerID = gm.OwnerID

\* Game.Snapshot: the game after the due advance, and the view returned
Snapshot(gm, now) ==
    LET g1 == advanceIfNeededLocked(gm, now).g
    IN  [g |-> g1,
         snap |-> [Status |-> g1.Status,
                   CurrentRound |-> g1.TimedRounds.CurrentRound,
                   now |-> now]]

(***************************************************************************)
(* The game under its lock: every method runs as one step, with the now    *)
(* its caller read from the clock.                                         *)
(***************************************************************************)
NoSnap == [Status |-> "none", CurrentRound |-> 0, now |-> 0]

\* match: the normalised guess is the word of the round the call found in effect
\* game: the game the call was made on, "word" (game.Game) or "explain";
\* guess: the text handed to SubmitGuess
GCall(op, now, player, ok, err) ==
    [op |-> op, now |-> now, player |-> player, ok |-> ok, err |-> err,
     match |-> FALSE, snap |-> NoSnap, prev |-> NoSnap, game |-> "word",
     guess |-> << >>]

\* A call on the explain game.
ECall(op, now, player, ok, err) ==
    [GCall(op, now, player, ok, err) EXCEPT !.game = "explain"]

Init ==
    /\ g \in UNION {{NewGame(r, MinDuration, DefaultCooldown, rd) :
                        rd \in RoundDatas(r)} : r \in 1..MaxRounds}
    /\ prevSnap = NoSnap
    /\ clock = 1
    /\ last = GCall("none", 0, NoPlayer, FALSE, "")
    /\ tr = "none"
    /\ eg = "none"
    /\ ewon = 0
    /\ mu = "none"
    /\ hnd = "none"
    /\ elp = "none"
    /\ rs = "none"
    /\ spawning = 0
    /\ gor = "none"
    /\ bc = "none"
    /\ lk = "none"
    /\ rooms = "none"

Tick ==
    /\ clock < MaxTime
    /\ clock' = clock + 1
    /\ last' = GCall("Tick", 0, NoPlayer, FALSE, "")
    /\ UNCHANGED <<g, prevSnap, gameOther>>

\* joinGame
DoAddPlayer ==
    /\ Cardinality(DOMAIN g.Players) < MaxPlayers
    /\ LET id == newID(g)
       IN  /\ g' = AddPlayer(g, id)
           /\ last' = GCall("AddPlayer", 0, id, TRUE, "")
    /\ prevSnap' = NoSnap
    /\ UNCHANGED <<clock, gameOther>>

\* startGame: only the owner's request reaches Game.Start
DoStart(now) ==
    /\ g.OwnerID # NoPlayer
    /\ \E r \in {GameStart(g, now)} :
           /\ g' = r.g
           /\ last' = GCall("Start", now, g.OwnerID, r.err = "", r.err)
    /\ prevSnap' = NoSnap
    /\ UNCHANGED <<clock, gameOther>>

\* restartGame: only the owner's request reaches Game.Restart
DoRestart(now) ==
    /\ g.OwnerID # NoPlayer
    /\ \E rd \in RoundDatas(g.TimedRounds.Rounds) :
         g' = Restart(g, now, rd)
    /\ last' = GCall("Restart", now, g.OwnerID, TRUE, "")
    /\ prevSnap' = NoSnap
    /\ UNCHANGED <<clock, gameOther>>

DoSubmitGuess(now) ==
    /\ \E p \in PlayerIDs, guess \in Guesses :
         \E r \in {SubmitGuess(g, p, guess, now)} :
             /\ g' = r.g
             /\ last' = [GCall("SubmitGuess", now, p, r.ok, r.err)
                           EXCEPT !.guess = guess,
                                  !.match =
                             (Normalize(guess) =
                                currentRoundDataLocked(advanceIfNeededLocked(g, now).g))]
    /\ prevSnap' = NoSnap
    /\ UNCHANGED <<clock, gameOther>>

\* updateProgress, as the owner's browser sends it (NoPlayer: no cookie)
DoUpdateProgress(now) ==
    /\ \E p \in {g.OwnerID}, correct \in {-1, 3} :
         /\ g' = UpdateProgress(g, p, correct, now)
         /\ last' = GCall("UpdateProgress", now, p, TRUE, "")
    /\ prevSnap' = NoSnap
    /\ UNCHANGED <<clock, gameOther>>

\* Game.AdvanceIfNeeded, as the loop's tick and the tests call it
DoAdvanceIfNeeded(now) ==
    /\ \E r \in {advanceIfNeededLocked(g, now)} :
           /\ g' = r.g
           /\ last' = GCall("AdvanceIfNeeded", now, NoPlayer, r.ret, "")
    /\ prevSnap' = NoSnap
    /\ UNCHANGED <<clock, gameOther>>

DoSnapshot(now) ==
    /\ \E r \in {Snapshot(g, now)} :
           /\ g' = r.g
           /\ prevSnap' = r.snap
           /\ last' = [GCall("Snapshot", now, NoPlayer, TRUE, "")
                         EXCEPT !.snap = r.snap, !.prev = prevSnap]
    /\ UNCHANGED <<clock, gameOther>>

Next ==
    \/ Tick
    \/ DoAddPlayer
    \/ \E now \in {clock} :
         \/ DoStart(now)
         \/ DoRestart(now)
         \/ DoSubmitGuess(now)
         \/ DoUpdateProgress(now)
         \/ DoAdvanceIfNeeded(now)
         \/ DoSnapshot(now)

Spec == Init /\ [][Next]_vars

(***************************************************************************)
(* Claims about game.Game.                                                 *)
(***************************************************************************)

\* C4 as stated: once the status is finished no operation changes it.
C4_FinishedIsFinal ==
    [][g.Status = "finished" => g'.Status = "finished"]_vars

\* C4 amended: once the status is finished, the only operation that changes it
\* is Restart, which puts the game back in_progress at round 1; AddPlayer,
\* Start, SubmitGuess, UpdateProgress, AdvanceIfNeeded and Snapshot leave a
\* finished game finished.
C4_FinishedUntilRestart ==
    [][(g.Status = "finished" /\ g'.Status # "finished")
         => (last'.op = "Restart" /\ g'.Status = "in_progress"
             /\ g'.TimedRounds.CurrentRound = 1)]_vars

\* C4 witness: Start was called on a finished game and refused.
C4_Witness ==
    g.Status = "finished" /\ last.op = "Start" /\ last.err = "game already started"

\* C5: AdvanceIfNeeded follows the schedule.  In a live round it returns false
\* and changes nothing before the deadline, and past the deadline returns
\* true, sets RoundEndedAt to the deadline and stays in_progress; in a cooldown
\* it returns true at or after RoundEndedAt+Cooldown and starts round
\* CurrentRound+1 at now, or finishes the game when CurrentRound = Rounds.  No
\* operation makes a game finished before its last round's cooldown is over.
C5_AdvanceFollowsSchedule ==
    [][LET t == g.TimedRounds
           now == last'.now
           deadline == t.RoundStarted + t.Duration
       IN  /\ (last'.op = "AdvanceIfNeeded" /\ g.Status = "in_progress"
               /\ ~IsZero(t.RoundStarted) /\ IsZero(t.RoundEndedAt))
                => /\ now < deadline => (~last'.ok /\ g' = g)
                   /\ now > deadline
                        => /\ last'.ok
                           /\ g'.Status = "in_progress"
                           /\ g'.TimedRounds = [t EXCEPT !.RoundEndedAt = deadline]
           /\ (last'.op = "AdvanceIfNeeded" /\ g.Status = "in_progress"
               /\ ~IsZero(t.RoundEndedAt) /\ now >= t.RoundEndedAt + t.Cooldown)
                => /\ last'.ok
                   /\ t.CurrentRound < t.Rounds
                        => /\ g'.Status = "in_progress"
                           /\ g'.TimedRounds = [t EXCEPT !.CurrentRound = @ + 1,
                                                         !.RoundStarted = now,
                                                         !.RoundEndedAt = 0]
                   /\ t.CurrentRound = t.Rounds
                        => (g'.Status = "finished" /\ g'.TimedRounds = t)
           /\ (g.Status # "finished" /\ g'.Status = "finished")
                => /\ t.CurrentRound = t.Rounds
                   /\ ~IsZero(t.RoundEndedAt)
                   /\ clock >= t.RoundEndedAt + t.Cooldown]_vars

\* C5 witness: a game of more than one round that nobody scored in was
\* finished by AdvanceIfNeeded.
C5_Witness ==
    /\ g.Status = "finished"
    /\ last.op = "AdvanceIfNeeded" /\ last.ok
    /\ g.TimedRounds.CurrentRound > 1
    /\ DOMAIN g.Players # {}
    /\ \A p \in DOMAIN g.Players : g.Players[p].Points = 0

\* C6: of two Snapshot calls at now1 < now2 with no other call between them,
\* the second reports a CurrentRound at least the first's, and reports
\* finished when the first did.
C6_SnapshotMonotone ==
    (last.op = "Snapshot" /\ last.prev.Status # "none" /\ last.prev.now < last.now)
        => /\ last.snap.CurrentRound >= last.prev.CurrentRound
           /\ last.prev.Status = "finished" => last.snap.Status = "finished"

\* C6 witness: the later of two consecutive Snapshot calls reported the next
\* round.
C6_Witness ==
    /\ last.op = "Snapshot"
    /\ last.prev.Status = "in_progress"
    /\ last.prev.now < last.now
    /\ last.snap.CurrentRound > last.prev.CurrentRound

(***************************************************************************)
(* explain.Game (internal/explain/game.go)                                 *)
(***************************************************************************)
MinPlayers == 2

\* The explainer's canvas: nil, or the items of the last UpdateCanvas.
NoCanvas == << >>
Canvases == {<<"item">>}

\* NewGame picks a random word for every round.
ERoundDatas(rounds) == [1..rounds -> Words]

ENewGame(rounds, duration, roundData) ==
    [Status |-> "lobby",
     TimedRounds |-> NewTimedRounds(rounds, duration, DefaultCooldown),
     RoundData |-> roundData,
     OwnerID |-> NoPlayer,
     Players |-> [p \in {} |-> [Points |-> 0]],
     Word |-> << >>,
     ExplainerID |-> NoPlayer,
     Canvas |-> NoCanvas,
     RevealedIndices |-> << >>,
     RoundWinnerID |-> NoPlayer,
     RoundSolvedAt |-> 0]

\* explain Game.AddPlayer, with id the fresh newID()
EAddPlayer(gm, id) ==
    [gm EXCEPT !.Players = [p \in DOMAIN gm.Players \cup {id} |->
                               IF p = id THEN [Points |-> 0] ELSE gm.Players[p]],
               !.OwnerID = IF gm.OwnerID = NoPlayer THEN id ELSE @]

\* sort.Strings / sort.Ints on a set of distinct values
RECURSIVE Sorted(_)
Sorted(S) ==
    IF S = {} THEN << >>
    ELSE LET m == CHOOSE x \in S : \A y \in S : x <= y
         IN  <<m>> \o Sorted(S \ {m})

\* explain Game.currentRoundDataLocked: the round's word, << >> for RoundData{}
EcurrentRoundDataLocked(gm) ==
    IF gm.TimedRounds.CurrentRound <= 0
       \/ gm.TimedRounds.CurrentRound > Len(gm.RoundData)
    THEN << >>
    ELSE gm.RoundData[gm.TimedRounds.CurrentRound]

\* The explainer startRoundLocked picks: the players in id order, rotated by
\* the round index.
Explainer(gm) ==
    LET playerIDs == Sorted(DOMAIN gm.Players)
        idx == (gm.TimedRounds.CurrentRound - 1) % Len(playerIDs)
    IN  playerIDs[idx + 1]

\* explain Game.startRoundLocked
startRoundLocked(gm) ==
    [gm EXCEPT !.ExplainerID = Explainer(gm),
               !.Word = EcurrentRoundDataLocked(gm),
               !.Canvas = NoCanvas,
               !.RevealedIndices = << >>,
               !.RoundWinnerID = NoPlayer,
               !.RoundSolvedAt = 0]

\* Mutant of EStart: the number of players is not checked.
EStartNoMinimum(gm, now) ==
    IF gm.Status # "lobby" THEN [g |-> gm, err |-> "game already started"]
    ELSE [g |-> startRoundLocked([gm EXCEPT !.Status = "in_progress",
                                            !.TimedRounds = TimedRoundsStart(@, now)]),
          err |-> ""]

\* explain Game.Start
EStart(gm, now) ==
    IF gm.Status # "lobby" THEN [g |-> gm, err |-> "game already started"]
    ELSE IF Cardinality(DOMAIN gm.Players) < MinPlayers
    THEN [g |-> gm, err |-> "need at least 2 players"]
    ELSE [g |-> startRoundLocked([gm EXCEPT !.Status = "in_progress",
                                            !.TimedRounds = TimedRoundsStart(@, now)]),
          err |-> ""]

\* explain Game.advanceIfNeededLocked (and Game.AdvanceIfNeeded, which only locks)
EadvanceIfNeededLocked(gm, now) ==
    IF gm.Status # "in_progress" \/ IsZero(gm.TimedRounds.RoundStarted)
    THEN [g |-> gm, ret |-> FALSE]
    ELSE LET r == Advance(gm.TimedRounds, now)
             g1 == [gm EXCEPT !.TimedRounds = r.t]
         IN  IF r.finished
             THEN [g |-> [g1 EXCEPT !.Status = "finished"], ret |-> TRUE]
             ELSE IF r.advanced
             THEN [g |-> startRoundLocked(g1), ret |-> TRUE]
             ELSE [g |-> g1, ret |-> FALSE]

\* explain Game.NextTimer: <<next, ok>>
ENextTimer(gm, now) ==
    IF gm.Status # "in_progress" THEN <<0, FALSE>>
    ELSE LET w == NextWake(gm.TimedRounds, now)
             start == gm.TimedRounds.RoundStarted
             dur == gm.TimedRounds.Duration
             half == start + (dur \div 2)
             threeq == start + ((dur * 3) \div 4)
             n1 == IF Before(now, half) /\ (IsZero(w[1]) \/ Before(half, w[1]))
                   THEN half ELSE w[1]
             n2 == IF Before(now, threeq) /\ (IsZero(n1) \/ Before(threeq, n1))
                   THEN threeq ELSE n1
         IN  IF ~w[2] THEN <<0, FALSE>>
             ELSE IF IsZero(gm.TimedRounds.RoundEndedAt) /\ ~IsZero(start)
             THEN <<n2, TRUE>>
             ELSE <<w[1], TRUE>>

\* The number of letters RevealLettersIfNeeded wants revealed at now: one from
\* 50% of the round, two from 75%.  The code compares nanoseconds, where dur/2
\* and (dur*3)/4 are exact for a duration of whole seconds; in units of five
\* seconds the same comparisons are 2*elapsed >= dur and 4*elapsed >= 3*dur.
WantRevealed(t, now) ==
    LET elapsed == now - t.RoundStarted
    IN  IF 4 * elapsed >= 3 * t.Duration THEN 2
        ELSE IF 2 * elapsed >= t.Duration THEN 1
        ELSE 0

\* explain Game.RevealLettersIfNeeded, seen from a caller that read the fields
\* as they are in seen and writes into gm: the outcomes, one for each index the
\* random generator may pick.  Under the lock seen = gm.
RevealWith(gm, seen, now) ==
    LET available == {i \in 1..Len(seen.Word) :
                        \A k \in 1..Len(seen.RevealedIndices) :
                            seen.RevealedIndices[k] # i}
        revealed == {seen.RevealedIndices[k] : k \in 1..Len(seen.RevealedIndices)}
    IN  IF seen.Word = << >> \/ seen.Status # "in_progress"
        THEN {[g |-> gm, ret |-> FALSE]}
        ELSE IF WantRevealed(seen.TimedRounds, now) <= Len(seen.RevealedIndices)
        THEN {[g |-> gm, ret |-> FALSE]}
        ELSE IF available = {} THEN {[g |-> gm, ret |-> FALSE]}
        ELSE {[g |-> [gm EXCEPT !.RevealedIndices = Sorted(revealed \cup {idx})],
               ret |-> TRUE] : idx \in available}

RevealLettersIfNeeded(gm, now) == RevealWith(gm, gm, now)

\* Mutant of RoundPoints: an award below 1 is raised to k.
RoundPointsFloorK(k, remaining, duration) ==
    LET pts == ((k * remaining) + duration - 1) \div duration
    IN  IF pts < 1 THEN k ELSE pts

\* math.Ceil(k * remaining / duration), at least 1
RoundPoints(k, remaining, duration) ==
    LET pts == ((k * remaining) + duration - 1) \div duration
    IN  IF pts < 1 THEN 1 ELSE pts

\* The awards of a correct guess at now in the round of t: remaining is
\* Duration - elapsed, clamped at 0 from below only.
GuessAwards(t, now) ==
    LET elapsed == now - t.RoundStarted
        left == t.Duration - elapsed
        remaining == IF left < 0 THEN 0 ELSE left
    IN  [guesser |-> RoundPoints(10, remaining, t.Duration),
         explainer |-> RoundPoints(5, remaining, t.Duration)]

\* explain Game.SubmitGuess: the new game, correct and the error ("" for nil)
ESubmitGuess(gm, playerID, guess, now) ==
    IF gm.Status # "in_progress"
    THEN [g |-> gm, ok |-> FALSE, err |-> "game not in progress"]
    ELSE IF playerID = gm.ExplainerID
    THEN [g |-> gm, ok |-> FALSE, err |-> "explainer cannot guess"]
    ELSE IF playerID \notin DOMAIN gm.Players
    THEN [g |-> gm, ok |-> FALSE, err |-> "player not found"]
    ELSE LET g1 == EadvanceIfNeededLocked(gm, now).g
             normalized == Normalize(guess)
             award == GuessAwards(g1.TimedRounds, now)
             guesserPoints == award.guesser
             explainerPoints == award.explainer
             p1 == [g1.Players EXCEPT ![playerID].Points = @ + guesserPoints]
             p2 == IF g1.ExplainerID \in DOMAIN p1
                   THEN [p1 EXCEPT ![g1.ExplainerID].Points = @ + explainerPoints]
                   ELSE p1
         IN  IF g1.Status # "in_progress" THEN [g |-> g1, ok |-> FALSE, err |-> ""]
             ELSE IF g1.RoundWinnerID # NoPlayer THEN [g |-> g1, ok |-> FALSE, err |-> ""]
             ELSE IF normalized = << >> \/ g1.Word = << >>
             THEN [g |-> g1, ok |-> FALSE, err |-> ""]
             ELSE IF normalized # g1.Word THEN [g |-> g1, ok |-> FALSE, err |-> ""]
             ELSE [g |-> [g1 EXCEPT !.Players = p2,
                                    !.RoundWinnerID = playerID,
                                    !.RoundSolvedAt = now,
                                    !.TimedRounds.RoundEndedAt = now],
                   ok |-> TRUE, err |-> ""]

\* explain Game.UpdateCanvas
EUpdateCanvas(gm, playerID, items) ==
    IF gm.Status # "in_progress" \/ gm.ExplainerID # playerID
    THEN [g |-> gm, ok |-> FALSE]
    ELSE [g |-> [gm EXCEPT !.Canvas = items], ok |-> TRUE]

\* explain Game.Snapshot: the outcomes (one for each letter the reveal may
\* pick), each the game left behind and the view returned
ESnapshot(gm, now) ==
    LET g1 == [gm EXCEPT !.TimedRounds = Advance(@, now).t]
    IN  {[g |-> r.g,
          snap |-> [Status |-> r.g.Status,
                    CurrentRound |-> r.g.TimedRounds.CurrentRound,
                    now |-> now]] : r \in RevealLettersIfNeeded(g1, now)}

\* The loop's tick on the explain game, taken as one step: the outcomes
ETick(gm, now) ==
    IF ~ENextTimer(gm, now)[2] THEN {[g |-> gm, advanced |-> FALSE, stop |-> TRUE]}
    ELSE LET r == EadvanceIfNeededLocked(gm, now)
         IN  IF r.ret
             THEN {[g |-> r.g, advanced |-> TRUE, stop |-> ~ENextTimer(r.g, now)[2]]}
             ELSE {[g |-> v.g, advanced |-> FALSE, stop |-> FALSE] :
                     v \in RevealLettersIfNeeded(r.g, now)}

(***************************************************************************)
(* The explain game under its lock, every method one step.                 *)
(***************************************************************************)
InitExplain ==
    /\ eg \in UNION {{ENewGame(r, MinDuration, rd) : rd \in ERoundDatas(r)} :
                      r \in 1..MaxRounds}
    /\ ewon = 0
    /\ clock = 1
    /\ last = GCall("none", 0, NoPlayer, FALSE, "")
    /\ tr = "none"
    /\ g = "none"
    /\ prevSnap = NoSnap
    /\ mu = "none"
    /\ hnd = "none"
    /\ elp = "none"
    /\ rs = "none"
    /\ spawning = 0
    /\ gor = "none"
    /\ bc = "none"
    /\ lk = "none"
    /\ rooms = "none"

\* joinGame
EDoAddPlayer ==
    /\ Cardinality(DOMAIN eg.Players) < MaxPlayers
    /\ \E id \in PlayerIDs \ DOMAIN eg.Players :
         /\ eg' = EAddPlayer(eg, id)
         /\ last' = ECall("AddPlayer", 0, id, TRUE, "")
    /\ UNCHANGED <<ewon, clock, explainLoopVars, explainOther>>

\* startGame: only the owner's request reaches Game.Start
EDoStart(now) ==
    /\ eg.OwnerID # NoPlayer
    /\ \E r \in {EStart(eg, now)} :
         /\ eg' = r.g
         /\ last' = ECall("Start", now, eg.OwnerID, r.err = "", r.err)
    /\ UNCHANGED <<ewon, clock, explainLoopVars, explainOther>>

\* The word of the round that is in effect at now by the timing alone.
RoundWordAt(gm, now) ==
    EcurrentRoundDataLocked([gm EXCEPT !.TimedRounds = Advance(@, now).t])

\* submitGuess; match: the normalised guess is the word of the round in effect
EDoSubmitGuess(now) ==
    /\ \E p \in PlayerIDs, guess \in Guesses :
         \E r \in {ESubmitGuess(eg, p, guess, now)} :
             /\ eg' = r.g
             /\ ewon' = IF r.ok THEN r.g.TimedRounds.CurrentRound ELSE ewon
             /\ last' = [ECall("SubmitGuess", now, p, r.ok, r.err)
                           EXCEPT !.guess = guess,
                                  !.match = (Normalize(guess) = RoundWordAt(eg, now))]
    /\ UNCHANGED <<clock, explainLoopVars, explainOther>>

\* updateCanvas
EDoUpdateCanvas ==
    /\ \E p \in PlayerIDs, items \in Canvases :
         \E r \in {EUpdateCanvas(eg, p, items)} :
             /\ eg' = r.g
             /\ last' = ECall("UpdateCanvas", 0, p, r.ok, "")
    /\ UNCHANGED <<ewon, clock, explainLoopVars, explainOther>>

EDoAdvanceIfNeeded(now) ==
    /\ \E r \in {EadvanceIfNeededLocked(eg, now)} :
         /\ eg' = r.g
         /\ last' = ECall("AdvanceIfNeeded", now, NoPlayer, r.ret, "")
    /\ UNCHANGED <<ewon, clock, explainLoopVars, explainOther>>

\* Every page, fragment and stream request takes a Snapshot.
EDoSnapshot(now) ==
    /\ \E r \in ESnapshot(eg, now) :
         /\ eg' = r.g
         /\ last' = [ECall("Snapshot", now, NoPlayer, TRUE, "") EXCEPT !.snap = r.snap]
    /\ UNCHANGED <<ewon, clock, explainLoopVars, explainOther>>

\* One turn of the room's loop.
EDoLoopTick(now) ==
    /\ \E r \in ETick(eg, now) :
         /\ eg' = r.g
         /\ last' = ECall("LoopTick", now, NoPlayer, r.advanced, "")
    /\ UNCHANGED <<ewon, clock, explainLoopVars, explainOther>>

NextExplain ==
    \/ Tick
    \/ EDoAddPlayer
    \/ EDoUpdateCanvas
    \/ \E now \in {clock} :
         \/ EDoStart(now)
         \/ EDoSubmitGuess(now)
         \/ EDoAdvanceIfNeeded(now)
         \/ EDoSnapshot(now)
         \/ EDoLoopTick(now)

SpecExplain == InitExplain /\ [][NextExplain]_vars

(***************************************************************************)
(* Claims about explain.Game.                                              *)
(***************************************************************************)

\* C1 as stated, call by call: take a SubmitGuess call by a joined player who
\* is not the round's explainer, carrying the round's word, made while the game
\* is in progress and no timing transition is due.  If the round is live
\* (nobody has won it and it has not timed out) the call returns true, becomes
\* the round's winner and gains points; if the round has been won already the
\* call returns (false, nil) and changes no score.  No round is won twice.
C1_ExactlyOnce ==
    [][last'.op = "SubmitGuess"
         => LET now == last'.now
                p == last'.player
                adv == Advance(eg.TimedRounds, now)
                due == [eg EXCEPT !.TimedRounds = adv.t]
                guesser == p \in DOMAIN eg.Players /\ p # Explainer(due)
            IN  /\ (eg.Status = "in_progress" /\ ~adv.advanced /\ guesser /\ last'.match)
                     => IF IsZero(adv.t.RoundEndedAt)
                        THEN /\ last'.ok /\ last'.err = ""
                             /\ eg'.RoundWinnerID = p
                             /\ eg'.Players[p].Points > eg.Players[p].Points
                        ELSE (ewon = adv.t.CurrentRound)
                                => /\ ~last'.ok /\ last'.err = ""
                                   /\ eg'.Players = eg.Players
                /\ last'.ok => ewon # eg'.TimedRounds.CurrentRound]_vars

\* C9 as stated: the game Snapshot(now) leaves behind is the game
\* AdvanceIfNeeded(now) leaves behind, plus the letter reveals due at now.
C9_SnapshotAdvancesLikeAdvanceIfNeeded ==
    [][last'.op = "Snapshot"
         => \E r \in RevealLettersIfNeeded(EadvanceIfNeededLocked(eg, last'.now).g,
                                           last'.now) : eg' = r.g]_vars

(***************************************************************************)
(* The explain room's loop next to a request handler, lock by lock.  A     *)
(* locked method takes g.mu, runs and releases it; the handler's method is *)
(* split in two steps (inside, then done) so that "another thread is       *)
(* inside a locked method" is a state.  RevealLettersIfNeeded, which the   *)
(* tick calls without the lock, reads the fields and then writes.  The     *)
(* record of the last call is not kept here.                               *)
(***************************************************************************)
Unlocked == "none"
HandlerIdle == [pc |-> "idle", op |-> "none"]
LoopTop == [pc |-> "top", now |-> 0, next |-> 0, wake |-> FALSE, seen |-> "none"]

\* A game of MinPlayers players that startGame has just started, with its loop.
StartedGames ==
    UNION {{EStart(EAddPlayer(EAddPlayer(ENewGame(r, MinDuration, rd), 1), 2), 1).g :
              rd \in ERoundDatas(r)} : r \in 1..MaxRounds}

InitELoop ==
    /\ eg \in StartedGames
    /\ ewon = 0
    /\ mu = Unlocked
    /\ hnd = HandlerIdle
    /\ elp = LoopTop
    /\ clock = 1
    /\ last = GCall("none", 0, NoPlayer, FALSE, "")
    /\ tr = "none"
    /\ g = "none"
    /\ prevSnap = NoSnap
    /\ rs = "none"
    /\ spawning = 0
    /\ gor = "none"
    /\ bc = "none"
    /\ lk = "none"
    /\ rooms = "none"

\* A unit of the clock is far longer than a method call or a turn of the loop:
\* time passes while the handler is idle and the loop sleeps or has exited.
LTime ==
    /\ hnd.pc = "idle"
    /\ elp.pc \in {"sleep", "done"}
    /\ clock < MaxTime
    /\ clock' = clock + 1
    /\ UNCHANGED <<eg, ewon, mu, hnd, elp, last, explainOther>>

\* g.mu.Lock() at the head of SubmitGuess or Snapshot
HEnter ==
    /\ hnd.pc = "idle"
    /\ mu = Unlocked
    /\ mu' = "handler"
    /\ \E op \in {"SubmitGuess", "Snapshot"} : hnd' = [pc |-> "in", op |-> op]
    /\ UNCHANGED <<eg, ewon, elp, clock, last, explainOther>>

\* The body of the method, with the arguments of the request and the now its
\* handler read, and the deferred g.mu.Unlock(); a correct guess wakes the loop.
HLeave(now) ==
    /\ hnd.pc = "in"
    /\ \/ /\ hnd.op = "SubmitGuess"
          /\ \E p \in PlayerIDs, guess \in Guesses :
               \E r \in {ESubmitGuess(eg, p, guess, now)} :
                  /\ eg' = r.g
                  /\ ewon' = IF r.ok THEN r.g.TimedRounds.CurrentRound ELSE ewon
                  /\ elp' = [elp EXCEPT !.wake = @ \/ r.ok]
       \/ /\ hnd.op = "Snapshot"
          /\ \E r \in ESnapshot(eg, now) : eg' = r.g
          /\ UNCHANGED <<ewon, elp>>
    /\ mu' = Unlocked
    /\ hnd' = HandlerIdle
    /\ UNCHANGED <<clock, last, explainOther>>

\* RunLoop: state := getState(); now := time.Now().UTC()
LNow ==
    /\ elp.pc = "top"
    /\ elp' = [elp EXCEPT !.pc = "nextTimer", !.now = clock]
    /\ UNCHANGED <<eg, ewon, mu, hnd, clock, last, explainOther>>

\* tick: next, ok := state.NextTimer(now)
LNextTimer ==
    /\ elp.pc = "nextTimer"
    /\ mu = Unlocked
    /\ \E r \in {ENextTimer(eg, elp.now)} :
         elp' = IF r[2] THEN [elp EXCEPT !.pc = "advance", !.next = r[1]]
                ELSE [elp EXCEPT !.pc = "done"]
    /\ UNCHANGED <<eg, ewon, mu, hnd, clock, last, explainOther>>

\* tick: advanced := state.AdvanceIfNeeded(now)
LAdvance ==
    /\ elp.pc = "advance"
    /\ mu = Unlocked
    /\ \E r \in {EadvanceIfNeededLocked(eg, elp.now)} :
         /\ eg' = r.g
         /\ elp' = [elp EXCEPT !.pc = IF r.ret THEN "nextTimer2" ELSE "reveal"]
    /\ UNCHANGED <<ewon, mu, hnd, clock, last, explainOther>>

\* tick: next2, ok2 := state.NextTimer(now), then the events are published
LNextTimer2 ==
    /\ elp.pc = "nextTimer2"
    /\ mu = Unlocked
    /\ \E r \in {ENextTimer(eg, elp.now)} :
         elp' = IF r[2] THEN [elp EXCEPT !.pc = "sleep", !.next = r[1]]
                ELSE [elp EXCEPT !.pc = "done"]
    /\ UNCHANGED <<eg, ewon, mu, hnd, clock, last, explainOther>>

\* tick: state.RevealLettersIfNeeded(now), g.mu not taken: the reads
LRevealRead ==
    /\ elp.pc = "reveal"
    /\ elp' = [elp EXCEPT !.pc = "revealing", !.seen = eg]
    /\ UNCHANGED <<eg, ewon, mu, hnd, clock, last, explainOther>>

\* ... and the write of RevealedIndices, from what was read
LRevealWrite ==
    /\ elp.pc = "revealing"
    /\ \E r \in RevealWith(eg, elp.seen, elp.now) :
         /\ eg' = r.g
    /\ elp' = [elp EXCEPT !.pc = "sleep", !.seen = "none"]
    /\ UNCHANGED <<ewon, mu, hnd, clock, last, explainOther>>

\* RunLoop: the select on the timer and the wake channel
LSleep ==
    /\ elp.pc = "sleep"
    /\ elp.wake \/ clock >= elp.next
    /\ elp' = [elp EXCEPT !.pc = "top", !.wake = FALSE]
    /\ UNCHANGED <<eg, ewon, mu, hnd, clock, last, explainOther>>

NextELoop ==
    \/ LTime
    \/ HEnter
    \/ HLeave(clock)
    \/ LNow
    \/ LNextTimer
    \/ LAdvance
    \/ LNextTimer2
    \/ LRevealRead
    \/ LRevealWrite
    \/ LSleep

SpecELoop == InitELoop /\ [][NextELoop]_vars

\* C8 as stated: the loop is never inside RevealLettersIfNeeded, reading and
\* writing the game's fields, while a handler's thread is inside a locked
\* method of the same game.
C8_FieldsOnlyUnderLock ==
    ~(elp.pc = "revealing" /\ hnd.pc = "in")

(***************************************************************************)
(* realtime.RoomStore: the background loop of one room id, running the     *)
(* word game's tick (Store.EnsureRoundLoop in internal/game/store.go).     *)
(***************************************************************************)
\* NewRoomStore: no loops[id], no wakes[id].  wake is the number of tokens in
\* the one-slot channel wakes[id].
NewRoomStore == [loops |-> FALSE, wake |-> 0]

\* Mutant of RunLoop: the loops[id] test is left out.
RunLoopAlways(s) ==
    [s |-> [loops |-> TRUE, wake |-> 0], go |-> TRUE]

\* RoomStore.RunLoop, the part under s.mu: the store, and whether the caller
\* goes on to "go func()"
RunLoop(s) ==
    IF s.loops THEN [s |-> s, go |-> FALSE]
    ELSE [s |-> [loops |-> TRUE, wake |-> 0], go |-> TRUE]

\* Mutant of Wake: the send is left out.
WakeNoSend(s) == s

\* RoomStore.Wake: a non-blocking send on wakes[id]
Wake(s) ==
    IF ~s.loops THEN s
    ELSE IF s.wake = 0 THEN [s EXCEPT !.wake = 1] ELSE s

\* The events the game's tick asks RunLoop to publish after a transition.
TickEvents == {"round", "scores", "players"}

\* A goroutine slot: now, next, advanced are the tick's locals; published the
\* events this turn of the loop has published.
NoGoroutine ==
    [pc |-> "none", now |-> 0, next |-> 0, advanced |-> FALSE, published |-> {}]

LiveLoops == {i \in 1..MaxGoroutines : gor[i].pc # "none"}

\* A room whose owner has joined; no loop yet.
InitLoop ==
    /\ g \in UNION {{AddPlayer(NewGame(r, MinDuration, DefaultCooldown, rd), 1) :
                       rd \in RoundDatas(r)} : r \in 1..MaxRounds}
    /\ prevSnap = NoSnap
    /\ clock = 1
    /\ last = GCall("none", 0, NoPlayer, FALSE, "")
    /\ rs = NewRoomStore
    /\ spawning = 0
    /\ gor = [i \in 1..MaxGoroutines |-> NoGoroutine]
    /\ bc = "none"
    /\ lk = "none"
    /\ rooms = "none"
    /\ tr = "none"
    /\ eg = "none"
    /\ ewon = 0
    /\ mu = "none"
    /\ hnd = "none"
    /\ elp = "none"

\* A unit of the clock is far longer than a turn of the loop: time passes
\* while every loop goroutine sleeps.
GTime ==
    /\ \A i \in 1..MaxGoroutines : gor[i].pc \in {"none", "sleep"}
    /\ clock < MaxTime
    /\ clock' = clock + 1
    /\ last' = GCall("Tick", 0, NoPlayer, FALSE, "")
    /\ UNCHANGED <<g, prevSnap, storeVars, tr, eg, ewon, explainLoopVars, fanoutVars>>

\* EnsureRoundLoop -> RunLoop up to s.mu.Unlock()
DoRunLoop ==
    /\ spawning + Cardinality(LiveLoops) < MaxGoroutines
    /\ \E r \in {RunLoop(rs)} :
         /\ rs' = r.s
         /\ spawning' = IF r.go THEN spawning + 1 ELSE spawning
         /\ last' = GCall("RunLoop", 0, NoPlayer, r.go, "")
    /\ UNCHANGED <<g, prevSnap, clock, gor, tr, eg, ewon, explainLoopVars, fanoutVars>>

\* RunLoop: go func() { ... }()
DoGo ==
    /\ spawning > 0
    /\ \E i \in 1..MaxGoroutines :
         /\ gor[i].pc = "none"
         /\ \A j \in 1..(i - 1) : gor[j].pc # "none"
         /\ gor' = [gor EXCEPT ![i] = [NoGoroutine EXCEPT !.pc = "top"]]
    /\ spawning' = spawning - 1
    /\ last' = GCall("go", 0, NoPlayer, TRUE, "")
    /\ UNCHANGED <<g, prevSnap, clock, rs, tr, eg, ewon, explainLoopVars, fanoutVars>>

\* WakeRoundLoop
DoWake ==
    /\ rs' = Wake(rs)
    /\ last' = GCall("Wake", 0, NoPlayer, rs.loops, "")
    /\ UNCHANGED <<g, prevSnap, clock, spawning, gor, tr, eg, ewon, explainLoopVars, fanoutVars>>

\* loop: state := getState(); now := time.Now().UTC()
GNow(i) ==
    /\ gor[i].pc = "top"
    /\ gor' = [gor EXCEPT ![i] = [NoGoroutine EXCEPT !.pc = "nextTimer", !.now = clock]]
    /\ last' = GCall("LoopNow", 0, NoPlayer, FALSE, "")
    /\ UNCHANGED <<g, prevSnap, clock, rs, spawning, tr, eg, ewon, explainLoopVars, fanoutVars>>

\* tick: next, ok := state.NextTimer(now); !ok stops the loop
GNextTimer(i) ==
    /\ gor[i].pc = "nextTimer"
    /\ \E r \in {NextTimer(g, gor[i].now)} :
         gor' = [gor EXCEPT ![i] = IF r[2] THEN [@ EXCEPT !.pc = "advance", !.next = r[1]]
                                   ELSE [@ EXCEPT !.pc = "exit"]]
    /\ last' = GCall("Loop", 0, NoPlayer, FALSE, "")
    /\ UNCHANGED <<g, prevSnap, clock, rs, spawning, tr, eg, ewon, explainLoopVars, fanoutVars>>

\* tick: advanced := state.AdvanceIfNeeded(now)
GAdvance(i) ==
    /\ gor[i].pc = "advance"
    /\ \E r \in {advanceIfNeededLocked(g, gor[i].now)} :
         /\ g' = r.g
         /\ gor' = [gor EXCEPT ![i] = [@ EXCEPT !.advanced = r.ret,
                                                !.pc = IF r.ret THEN "nextTimer2"
                                                       ELSE "sleep"]]
    /\ prevSnap' = NoSnap
    /\ last' = GCall("Loop", 0, NoPlayer, FALSE, "")
    /\ UNCHANGED <<clock, rs, spawning, tr, eg, ewon, explainLoopVars, fanoutVars>>

\* tick: next2, ok2 := state.NextTimer(now); !ok2 stops the loop, with no events
GNextTimer2(i) ==
    /\ gor[i].pc = "nextTimer2"
    /\ \E r \in {NextTimer(g, gor[i].now)} :
         gor' = [gor EXCEPT ![i] = IF r[2] THEN [@ EXCEPT !.pc = "publish", !.next = r[1]]
                                   ELSE [@ EXCEPT !.pc = "exit"]]
    /\ last' = GCall("Loop", 0, NoPlayer, FALSE, "")
    /\ UNCHANGED <<g, prevSnap, clock, rs, spawning, tr, eg, ewon, explainLoopVars, fanoutVars>>

\* loop: for _, e := range events { s.Publish(id, e) }
GPublish(i) ==
    /\ gor[i].pc = "publish"
    /\ gor' = [gor EXCEPT ![i] = [@ EXCEPT !.published = TickEvents, !.pc = "sleep"]]
    /\ last' = GCall("Loop", 0, NoPlayer, FALSE, "")
    /\ UNCHANGED <<g, prevSnap, clock, rs, spawning, tr, eg, ewon, explainLoopVars, fanoutVars>>

\* loop: the select; the timer fires once next has come, or a wake token is
\* taken from the channel
GSleep(i) ==
    /\ gor[i].pc = "sleep"
    /\ \/ /\ clock >= gor[i].next
          /\ rs' = rs
       \/ /\ rs.wake = 1
          /\ rs' = [rs EXCEPT !.wake = 0]
    /\ gor' = [gor EXCEPT ![i] = [@ EXCEPT !.pc = "top"]]
    /\ last' = GCall("Loop", 0, NoPlayer, FALSE, "")
    /\ UNCHANGED <<g, prevSnap, clock, spawning, tr, eg, ewon, explainLoopVars, fanoutVars>>

\* loop: return, and the deferred delete(s.loops, id); delete(s.wakes, id)
GExit(i) ==
    /\ gor[i].pc = "exit"
    /\ rs' = NewRoomStore
    /\ gor' = [gor EXCEPT ![i] = NoGoroutine]
    /\ last' = GCall("Loop", 0, NoPlayer, FALSE, "")
    /\ UNCHANGED <<g, prevSnap, clock, spawning, tr, eg, ewon, explainLoopVars, fanoutVars>>

\* submitGuess, as the owner's browser sends it
GSubmitGuess(now) ==
    /\ \E guess \in Guesses :
         \E r \in {SubmitGuess(g, g.OwnerID, guess, now)} :
             /\ g' = r.g
             /\ last' = [GCall("SubmitGuess", now, g.OwnerID, r.ok, r.err)
                           EXCEPT !.guess = guess]
    /\ prevSnap' = NoSnap
    /\ UNCHANGED <<clock, gameOther>>

NextLoop ==
    \/ GTime
    \/ DoRunLoop
    \/ DoGo
    \/ DoWake
    \/ \E now \in {clock} :
         \/ DoStart(now)
         \/ GSubmitGuess(now)
    \/ \E i \in 1..MaxGoroutines :
         \/ GNow(i)
         \/ GNextTimer(i)
         \/ GAdvance(i)
         \/ GNextTimer2(i)
         \/ GPublish(i)
         \/ GSleep(i)
         \/ GExit(i)

SpecLoop == InitLoop /\ [][NextLoop]_vars

(***************************************************************************)
(* Claims about the background loop.                                       *)
(***************************************************************************)

\* C7: a room id never has more than one live loop goroutine, and RunLoop
\* called while a loop is registered for the id changes nothing and starts no
\* goroutine.
C7_AtMostOneLoop ==
    /\ [](Cardinality(LiveLoops) + spawning <= 1)
    /\ [][(last'.op = "RunLoop" /\ rs.loops)
            => (~last'.ok /\ UNCHANGED <<rs, spawning, gor>>)]_vars

\* C7 witness: RunLoop was called while the room's loop goroutine was running,
\* and did nothing.
C7_Witness ==
    /\ last.op = "RunLoop" /\ ~last.ok
    /\ Cardinality(LiveLoops) = 1
    /\ spawning = 0

\* C10 as stated: when the tick has applied a time-driven transition, the loop
\* has published "round", "scores" and "players" by the time it sleeps or
\* exits.
C10_TransitionsPublished ==
    \A i \in 1..MaxGoroutines :
        (gor[i].pc \in {"sleep", "exit"} /\ gor[i].advanced)
            => TickEvents \subseteq gor[i].published

(***************************************************************************)
(* realtime.Broadcaster (pkg/realtime/broadcaster.go): a set of subscriber *)
(* channels under b.mu.  Every method holds b.mu for its whole body and    *)
(* does nothing under it that can wait, so each call is one step; a        *)
(* reader's receive is one channel operation.  Each Publish call carries   *)
(* an event of its own (the number of the call), so that a reordering or a *)
(* duplicate would show in a queue.                                        *)
(***************************************************************************)
MaxSubscribers == 2
MaxPublish == 12

\* make(chan string, 10)
ChanCap == 10

Chans == 1..MaxSubscribers

\* A channel: made by Subscribe or not yet, closed or open, its buffer.
NoChan == [made |-> FALSE, closed |-> FALSE, buf |-> << >>]
MakeChan == [made |-> TRUE, closed |-> FALSE, buf |-> << >>]

\* Mutant of SendOrDrop: a full queue gives up its oldest event for the new
\* one.
SendOrEvict(c, event) ==
    IF c.closed THEN [c |-> c, panic |-> TRUE]
    ELSE IF Len(c.buf) < ChanCap
         THEN [c |-> [c EXCEPT !.buf = Append(@, event)], panic |-> FALSE]
         ELSE [c |-> [c EXCEPT !.buf = Append(Tail(@), event)], panic |-> FALSE]

\* Mutant of SendOrDrop: the event goes to the front of the queue.
SendToFront(c, event) ==
    IF c.closed THEN [c |-> c, panic |-> TRUE]
    ELSE IF Len(c.buf) < ChanCap
         THEN [c |-> [c EXCEPT !.buf = <<event>> \o @], panic |-> FALSE]
         ELSE [c |-> c, panic |-> FALSE]

\* "select { case ch <- event: default: }": a send on a closed channel
\* panics, a send on a full one takes the default branch.
SendOrDrop(c, event) ==
    IF c.closed THEN [c |-> c, panic |-> TRUE]
    ELSE IF Len(c.buf) < ChanCap
         THEN [c |-> [c EXCEPT !.buf = Append(@, event)], panic |-> FALSE]
         ELSE [c |-> c, panic |-> FALSE]

\* "<-ch" by a reader: a buffered value, then closure; no step while the
\* channel is open and empty
CanRecv(c) == c.made /\ (c.buf # << >> \/ c.closed)
Recv(c) ==
    IF c.buf # << >>
    THEN [c |-> [c EXCEPT !.buf = Tail(@)], event |-> Head(c.buf), ok |-> TRUE]
    ELSE [c |-> c, event |-> 0, ok |-> FALSE]

\* NewBroadcaster: no subscribers.  subs is b.subs, ch the channels.
NewBroadcaster == [subs |-> {}, ch |-> [c \in Chans |-> NoChan]]

\* Broadcaster.Subscribe: the new channel is id
Subscribe(b, id) ==
    [subs |-> b.subs \cup {id}, ch |-> [b.ch EXCEPT ![id] = MakeChan]]

\* Mutant of Unsubscribe: the channel is closed and stays in b.subs.
UnsubscribeKeep(b, id) ==
    IF id \in b.subs
    THEN [subs |-> b.subs, ch |-> [b.ch EXCEPT ![id].closed = TRUE]]
    ELSE b

\* Broadcaster.Unsubscribe
Unsubscribe(b, id) ==
    IF id \in b.subs
    THEN [subs |-> b.subs \ {id}, ch |-> [b.ch EXCEPT ![id].closed = TRUE]]
    ELSE b

\* Mutant of Publish: the event is sent to every channel Subscribe has made,
\* whether or not it is still in b.subs.
PublishToAll(b, event) ==
    [b |-> [b EXCEPT !.ch = [c \in Chans |->
                IF b.ch[c].made THEN SendOrDrop(b.ch[c], event).c ELSE b.ch[c]]],
     panic |-> \E c \in Chans : b.ch[c].made /\ SendOrDrop(b.ch[c], event).panic]

\* Broadcaster.Publish: the broadcaster, and whether a send panicked
Publish(b, event) ==
    [b |-> [b EXCEPT !.ch = [c \in Chans |->
                IF c \in b.subs THEN SendOrDrop(b.ch[c], event).c ELSE b.ch[c]]],
     panic |-> \E c \in b.subs : SendOrDrop(b.ch[c], event).panic]

BCall(op, ch, event, ok, err) ==
    [op |-> op, ch |-> ch, event |-> event, ok |-> ok, err |-> err]

\* History kept beside the broadcaster: npub counts the Publish calls,
\* due[c] lists the events published while c was subscribed and held fewer
\* than ChanCap events, nrcv[c] counts the events a reader took from c.
InitBcast ==
    /\ bc = [b |-> NewBroadcaster, npub |-> 0,
             due |-> [c \in Chans |-> << >>], nrcv |-> [c \in Chans |-> 0]]
    /\ last = BCall("none", 0, 0, FALSE, "")
    /\ clock = 1
    /\ rooms = "none"
    /\ lk = "none"
    /\ g = "none"
    /\ prevSnap = NoSnap
    /\ tr = "none"
    /\ eg = "none"
    /\ ewon = 0
    /\ mu = "none"
    /\ hnd = "none"
    /\ elp = "none"
    /\ rs = "none"
    /\ spawning = 0
    /\ gor = "none"

bcastOther ==
    <<tr, g, prevSnap, clock, eg, ewon, explainLoopVars, storeVars, rooms, lk>>

\* stream: ch := hub.Subscribe()
BSubscribe ==
    /\ \E id \in Chans :
         /\ ~bc.b.ch[id].made
         /\ \A c \in Chans : c < id => bc.b.ch[c].made
         /\ bc' = [bc EXCEPT !.b = Subscribe(bc.b, id)]
         /\ last' = BCall("Subscribe", id, 0, TRUE, "")
    /\ UNCHANGED bcastOther

\* stream: defer hub.Unsubscribe(ch); a test may call it again
BUnsubscribe ==
    /\ \E id \in Chans :
         /\ bc.b.ch[id].made
         /\ bc' = [bc EXCEPT !.b = Unsubscribe(bc.b, id)]
         /\ last' = BCall("Unsubscribe", id, 0, id \in bc.b.subs, "")
    /\ UNCHANGED bcastOther

\* hub.Publish(event)
BPublish ==
    /\ bc.npub < MaxPublish
    /\ \E event \in {bc.npub + 1} :
         \E r \in {Publish(bc.b, event)} :
             /\ bc' = [bc EXCEPT
                         !.b = r.b,
                         !.npub = event,
                         !.due = [c \in Chans |->
                                    IF c \in bc.b.subs
                                       /\ Len(bc.b.ch[c].buf) < ChanCap
                                    THEN Append(bc.due[c], event)
                                    ELSE bc.due[c]]]
             /\ last' = BCall("Publish", 0, event, ~r.panic,
                              IF r.panic THEN "send on closed channel" ELSE "")
    /\ UNCHANGED bcastOther

\* stream: "case event, ok := <-ch"
BReceive ==
    /\ \E id \in Chans :
         /\ CanRecv(bc.b.ch[id])
         /\ \E r \in {Recv(bc.b.ch[id])} :
              /\ bc' = [bc EXCEPT !.b.ch[id] = r.c,
                                  !.nrcv[id] = IF r.ok THEN @ + 1 ELSE @]
              /\ last' = BCall("Receive", id, r.event, r.ok, "")
    /\ UNCHANGED bcastOther

NextBcast == BSubscribe \/ BUnsubscribe \/ BPublish \/ BReceive

SpecBcast == InitBcast /\ [][NextBcast]_vars

\* C11: Publish never blocks and never fails.  A Publish call can always be
\* made (nothing but the bound of the model disables it) and returns without
\* a panic; with no subscriber it changes nothing; a subscriber whose queue
\* holds ChanCap events keeps its queue as it is, and every subscriber whose
\* queue has room has the event appended.
C11_PublishNeverBlocks ==
    /\ [](bc.npub < MaxPublish => ENABLED BPublish)
    /\ [][last'.op = "Publish" =>
            /\ last'.ok /\ last'.err = ""
            /\ bc.b.subs = {} => bc'.b = bc.b
            /\ bc'.b.subs = bc.b.subs
            /\ \A c \in Chans :
                 IF c \in bc.b.subs /\ Len(bc.b.ch[c].buf) < ChanCap
                 THEN bc'.b.ch[c] =
                        [bc.b.ch[c] EXCEPT !.buf = Append(@, last'.event)]
                 ELSE bc'.b.ch[c] = bc.b.ch[c]]_vars

\* C11 witness: a Publish has just dropped its event for a subscriber with a
\* full queue and delivered it to another.
C11_Witness ==
    /\ last.op = "Publish"
    /\ \E c \in bc.b.subs, d \in bc.b.subs :
         /\ Len(bc.b.ch[c].buf) = ChanCap
         /\ bc.b.ch[c].buf[ChanCap] # last.event
         /\ bc.b.ch[d].buf # << >>
         /\ bc.b.ch[d].buf[Len(bc.b.ch[d].buf)] = last.event

StrictlyIncreasing(s) == \A i \in 1..Len(s) - 1 : s[i] < s[i + 1]

\* C12: what a subscriber receives is exactly what was published while it was
\* subscribed with room in its queue, in publish order.  due[c] is a strictly
\* increasing run of published events (a subsequence of the publish sequence,
\* no duplicate); the queue of c always holds the part of due[c] not yet
\* received; each receive returns the next event of due[c]; and a Publish
\* enqueues its event for every current subscriber with room.
C12_FifoSubsequence ==
    /\ [](\A c \in Chans :
            /\ StrictlyIncreasing(bc.due[c])
            /\ \A i \in 1..Len(bc.due[c]) : bc.due[c][i] \in 1..bc.npub
            /\ bc.nrcv[c] <= Len(bc.due[c])
            /\ bc.b.ch[c].buf =
                 SubSeq(bc.due[c], bc.nrcv[c] + 1, Len(bc.due[c])))
    /\ [][(last'.op = "Receive" /\ last'.ok)
             => last'.event = bc.due[last'.ch][bc.nrcv[last'.ch] + 1]]_vars
    /\ [][last'.op = "Publish" =>
             \A c \in bc.b.subs :
                 Len(bc.b.ch[c].buf) < ChanCap
                     => /\ bc'.b.ch[c].buf # << >>
                        /\ bc'.b.ch[c].buf[Len(bc'.b.ch[c].buf)] = last'.event]_vars

\* C12 witness: a subscriber has received everything due to it, and an event
\* in the middle of the publish sequence was dropped for it.
C12_Witness ==
    /\ last.op = "Receive" /\ last.ok
    /\ bc.nrcv[last.ch] = Len(bc.due[last.ch])
    /\ \E i \in 1..Len(bc.due[last.ch]) - 1 :
         bc.due[last.ch][i + 1] > bc.due[last.ch][i] + 1

\* C13: Unsubscribe(q) removes q from the subscriber set and closes it, its
\* buffered events left in place; a closed queue is never a subscriber and
\* never grows; a reader of q gets the buffered events first and observes
\* closure exactly when q is closed and drained; a Publish after it still
\* reaches the remaining subscribers with room.
C13_UnsubscribeCloses ==
    /\ [](\A c \in Chans : bc.b.ch[c].closed => c \notin bc.b.subs)
    /\ [][(last'.op = "Unsubscribe" /\ last'.ch \in bc.b.subs) =>
             /\ bc'.b.subs = bc.b.subs \ {last'.ch}
             /\ bc'.b.ch = [bc.b.ch EXCEPT ![last'.ch].closed = TRUE]]_vars
    /\ [][\A c \in Chans :
             bc.b.ch[c].closed
                => /\ bc'.b.ch[c].closed
                   /\ Len(bc'.b.ch[c].buf) <= Len(bc.b.ch[c].buf)]_vars
    /\ [][last'.op = "Receive" =>
             (last'.ok <=> bc.b.ch[last'.ch].buf # << >>)
             /\ (~last'.ok => bc.b.ch[last'.ch].closed)]_vars
    /\ [][(last'.op = "Publish" /\ \E c \in Chans : bc.b.ch[c].closed) =>
             \A d \in bc.b.subs :
                 Len(bc.b.ch[d].buf) < ChanCap
                     => bc'.b.ch[d].buf = Append(bc.b.ch[d].buf, last'.event)]_vars

\* C13 witness: the reader of an unsubscribed queue has drained it and sees
\* it closed, while the other subscriber holds an event published after the
\* last one that queue was due.
C13_Witness ==
    /\ last.op = "Receive" /\ ~last.ok
    /\ bc.b.ch[last.ch].closed
    /\ bc.due[last.ch] # << >>
    /\ \E d \in bc.b.subs :
         /\ bc.b.ch[d].buf # << >>
         /\ bc.b.ch[d].buf[Len(bc.b.ch[d].buf)]
              > bc.due[last.ch][Len(bc.due[last.ch])]

(***************************************************************************)
(* realtime.RoomStore over several room ids (pkg/realtime/store.go): the   *)
(* rooms, loops and wakes maps under s.mu.  A room's hub has no subscriber *)
(* here, so Publish leaves the hub as it is.                               *)
(***************************************************************************)
MaxRooms == 2
MaxStates == 2

RoomIDs == 1..MaxRooms
\* The states a caller hands to Create; NoState is the zero value of T.
RoomStates == 1..MaxStates
NoState == 0

\* No entry in s.rooms.
NoRoom == [present |-> FALSE, State |-> NoState, hub |-> FALSE]

\* NewRoomStore with its three maps; wakes[id] is the number of tokens in the
\* one-slot channel (0 too when there is no entry).
NewRoomStoreMaps ==
    [rooms |-> [id \in RoomIDs |-> NoRoom],
     loops |-> [id \in RoomIDs |-> FALSE],
     wakes |-> [id \in RoomIDs |-> 0]]

\* RoomStore.Create
Create(s, id, state) ==
    [s EXCEPT !.rooms[id] = [present |-> TRUE, State |-> state, hub |-> TRUE]]

\* RoomStore.Get: the room and the found flag
Get(s, id) == [room |-> s.rooms[id], ok |-> s.rooms[id].present]

\* RoomStore.Broadcaster: the store it leaves
RoomBroadcaster(s, id) ==
    IF ~s.rooms[id].present
    THEN [s EXCEPT !.rooms[id] = [present |-> TRUE, State |-> NoState, hub |-> TRUE]]
    ELSE [s EXCEPT !.rooms[id].hub = TRUE]

\* RoomStore.Publish: Broadcaster(id), then Publish on a hub
RoomPublish(s, id) == RoomBroadcaster(s, id)

\* RoomStore.RunLoop, the part under s.mu, for room id
RoomRunLoop(s, id) ==
    IF s.loops[id] THEN s
    ELSE [s EXCEPT !.loops[id] = TRUE, !.wakes[id] = 0]

\* The loop goroutine's deferred delete of loops[id] and wakes[id]
RoomLoopExit(s, id) == [s EXCEPT !.loops[id] = FALSE, !.wakes[id] = 0]

\* RoomStore.Wake
RoomWake(s, id) ==
    IF ~s.loops[id] THEN s
    ELSE IF s.wakes[id] = 0 THEN [s EXCEPT !.wakes[id] = 1] ELSE s

SCall(op, id, ok, state) == [op |-> op, id |-> id, ok |-> ok, state |-> state]

\* History kept beside the store: created[id] is the state last given to
\* Create(id, _), NoState when Create was never called with id.
InitStore ==
    /\ rooms = [s |-> NewRoomStoreMaps, created |-> [id \in RoomIDs |-> NoState]]
    /\ last = SCall("none", 0, FALSE, NoState)
    /\ clock = 1
    /\ bc = "none"
    /\ lk = "none"
    /\ g = "none"
    /\ prevSnap = NoSnap
    /\ tr = "none"
    /\ eg = "none"
    /\ ewon = 0
    /\ mu = "none"
    /\ hnd = "none"
    /\ elp = "none"
    /\ rs = "none"
    /\ spawning = 0
    /\ gor = "none"

roomsOther ==
    <<tr, g, prevSnap, clock, eg, ewon, explainLoopVars, storeVars, bc, lk>>

SCreate(id) ==
    /\ \E state \in RoomStates :
         /\ rooms' = [rooms EXCEPT !.s = Create(rooms.s, id, state),
                                   !.created[id] = state]
         /\ last' = SCall("Create", id, TRUE, state)
    /\ UNCHANGED roomsOther

SGet(id) ==
    /\ \E r \in {Get(rooms.s, id)} :
         last' = SCall("Get", id, r.ok, r.room.State)
    /\ UNCHANGED <<rooms, roomsOther>>

SBroadcaster(id) ==
    /\ rooms' = [rooms EXCEPT !.s = RoomBroadcaster(rooms.s, id)]
    /\ last' = SCall("Broadcaster", id, TRUE, NoState)
    /\ UNCHANGED roomsOther

SPublish(id) ==
    /\ rooms' = [rooms EXCEPT !.s = RoomPublish(rooms.s, id)]
    /\ last' = SCall("Publish", id, TRUE, NoState)
    /\ UNCHANGED roomsOther

SRunLoop(id) ==
    /\ rooms' = [rooms EXCEPT !.s = RoomRunLoop(rooms.s, id)]
    /\ last' = SCall("RunLoop", id, ~rooms.s.loops[id], NoState)
    /\ UNCHANGED roomsOther

SLoopExit(id) ==
    /\ rooms.s.loops[id]
    /\ rooms' = [rooms EXCEPT !.s = RoomLoopExit(rooms.s, id)]
    /\ last' = SCall("LoopExit", id, TRUE, NoState)
    /\ UNCHANGED roomsOther

SWake(id) ==
    /\ rooms' = [rooms EXCEPT !.s = RoomWake(rooms.s, id)]
    /\ last' = SCall("Wake", id, rooms.s.loops[id], NoState)
    /\ UNCHANGED roomsOther

NextStore ==
    \E id \in RoomIDs :
        \/ SCreate(id)
        \/ SGet(id)
        \/ SBroadcaster(id)
        \/ SPublish(id)
        \/ SRunLoop(id)
        \/ SLoopExit(id)
        \/ SWake(id)

SpecStore == InitStore /\ [][NextStore]_vars

\* C14 as stated: Get(id) reports found exactly for the ids that were passed
\* to Create, with the state given to Create; for every other id, also one
\* only used with Broadcaster or Publish, it reports not found.
C14_GetFindsCreatedOnly ==
    (last.op = "Get")
        => /\ last.ok <=> rooms.created[last.id] # NoState
           /\ last.ok => last.state = rooms.created[last.id]

(***************************************************************************)
(* Claims about game.Game: ownership, Start and SubmitGuess.               *)
(***************************************************************************)
\* C15: the first player added to a game is its owner and stays the owner.
\* The AddPlayer call on a game without players makes the player it returns
\* the owner; from then on no operation changes IsOwner for any id; and at
\* every time at most one id is the owner and the empty id never is.
C15_FirstPlayerOwns ==
    /\ [][(last'.op = "AddPlayer" /\ DOMAIN g.Players = {})
             => IsOwner(g', last'.player)]_vars
    /\ [][DOMAIN g.Players # {}
             => \A p \in PlayerIDs \cup {NoPlayer} :
                    IsOwner(g', p) <=> IsOwner(g, p)]_vars
    /\ [](/\ ~IsOwner(g, NoPlayer)
          /\ Cardinality({p \in PlayerIDs : IsOwner(g, p)}) <= 1
          /\ \A p \in PlayerIDs : IsOwner(g, p) => p \in DOMAIN g.Players)

\* C15 witness: a second player joined a game that its owner had started and
\* that has since finished; the first player owns it, the second does not.
C15_Witness ==
    /\ last.op = "AddPlayer"
    /\ last.player = 2
    /\ g.Status = "finished"
    /\ IsOwner(g, 1)
    /\ ~IsOwner(g, 2)

\* What a successful Start(now) leaves in a game.
Started(gm, now) ==
    /\ gm.Status = "in_progress"
    /\ gm.TimedRounds.CurrentRound = 1
    /\ gm.TimedRounds.RoundStarted = now
    /\ IsZero(gm.TimedRounds.RoundEndedAt)
    /\ gm.RoundWinnerID = NoPlayer

\* C16 as stated: Start(now) on a game that is not in the lobby returns an
\* error and changes no field; Start(now) in the lobby returns no error and
\* leaves status in_progress, CurrentRound 1, RoundStarted = now, RoundEndedAt
\* and the round winner cleared -- in the word game and in the explain game.
C16_StartOnlyFromLobby ==
    [][last'.op = "Start" =>
         /\ last'.game = "word" =>
              IF g.Status # "lobby"
              THEN ~last'.ok /\ last'.err # "" /\ g' = g
              ELSE last'.ok /\ Started(g', last'.now)
         /\ last'.game = "explain" =>
              IF eg.Status # "lobby"
              THEN ~last'.ok /\ last'.err # "" /\ eg' = eg
              ELSE last'.ok /\ Started(eg', last'.now)]_vars

\* C16 amended: as above, except that the explain game's Start in the lobby
\* with fewer than MinPlayers players returns an error and changes no field.
C16_StartFromLobbyWithPlayers ==
    [][last'.op = "Start" =>
         /\ last'.game = "word" =>
              IF g.Status # "lobby"
              THEN ~last'.ok /\ last'.err # "" /\ g' = g
              ELSE last'.ok /\ Started(g', last'.now)
         /\ last'.game = "explain" =>
              IF eg.Status # "lobby" \/ Cardinality(DOMAIN eg.Players) < MinPlayers
              THEN ~last'.ok /\ last'.err # "" /\ eg' = eg
              ELSE last'.ok /\ Started(eg', last'.now)]_vars

\* C16 witness: Start was refused on a started explain game whose round has a
\* winner, and the winner and the scores are still there.
C16_Witness ==
    /\ last.op = "Start" /\ ~last.ok
    /\ last.game = "explain"
    /\ last.err = "game already started"
    /\ eg.Status = "in_progress"
    /\ eg.RoundWinnerID # NoPlayer
    /\ eg.Players[eg.RoundWinnerID].Points > 0

\* The scores of a game.
Points(gm) == [p \in DOMAIN gm.Players |-> gm.Players[p].Points]

\* The guess is not the word of the round the game is in, neither of the round
\* its CurrentRound names when the call arrives nor of the round that the
\* timing puts in effect at now.
WrongWord(gm, guess, now) ==
    /\ Normalize(guess) # gm.RoundData[gm.TimedRounds.CurrentRound]
    /\ Normalize(guess) #
         currentRoundDataLocked([gm EXCEPT !.TimedRounds = Advance(@, now).t])

\* C17 as stated: SubmitGuess on a game in the lobby or finished returns
\* (false, error) and changes nothing; a SubmitGuess on a game in progress
\* whose normalised text is not the current round's word (the empty text
\* too) returns correct=false, changes no player's points and sets no round
\* winner.
C17_RejectedGuessChangesNoScore ==
    [][last'.op = "SubmitGuess" =>
         LET gm == IF last'.game = "word" THEN g ELSE eg
             gm2 == IF last'.game = "word" THEN g' ELSE eg'
         IN  IF gm.Status # "in_progress"
             THEN ~last'.ok /\ last'.err # "" /\ gm2 = gm
             ELSE WrongWord(gm, last'.guess, last'.now)
                    => /\ ~last'.ok
                       /\ Points(gm2) = Points(gm)
                       /\ gm2.RoundWinnerID \in {gm.RoundWinnerID, NoPlayer}]_vars

\* C18 as stated: once the current round has ended -- by a winner, or by its
\* deadline having passed when the call arrives -- and the next round has not
\* started, SubmitGuess returns correct=false, awards no points and leaves
\* RoundWinnerID and RoundEndedAt as they are; RoundEndedAt is set once per
\* round.  adv is the timing the call finds due: the round is the one the game
\* was in, and it is over; RoundEndedAt is then the one the game had or the
\* deadline that the timing sets.
C18_NoGuessAfterRoundEnd ==
    [][last'.op = "SubmitGuess" =>
         LET gm == IF last'.game = "word" THEN g ELSE eg
             gm2 == IF last'.game = "word" THEN g' ELSE eg'
             adv == Advance(gm.TimedRounds, last'.now)
         IN  (/\ gm.Status = "in_progress"
              /\ ~adv.finished
              /\ adv.t.CurrentRound = gm.TimedRounds.CurrentRound
              /\ adv.t.RoundStarted = gm.TimedRounds.RoundStarted
              /\ ~IsZero(adv.t.RoundEndedAt))
               => /\ ~last'.ok
                  /\ Points(gm2) = Points(gm)
                  /\ gm2.RoundWinnerID = gm.RoundWinnerID
                  /\ gm2.TimedRounds.RoundEndedAt
                       \in {gm.TimedRounds.RoundEndedAt, adv.t.RoundEndedAt}]_vars

(***************************************************************************)
(* The explain game with a late caller: submitGuess reads time.Now() as    *)
(* it makes the call (handlers.go), before SubmitGuess takes g.mu, so a    *)
(* call that waited for the lock carries a now older than the one of the   *)
(* call that held it.  Advancement is the loop's tick calling              *)
(* AdvanceIfNeeded.                                                        *)
(***************************************************************************)
\* submitGuess whose now was read one unit before the lock was had
EDoSubmitGuessLate ==
    /\ clock > 1
    /\ \E now \in {clock - 1} : EDoSubmitGuess(now)

NextSkew ==
    \/ Tick
    \/ EDoAddPlayer
    \/ EDoSubmitGuessLate
    \/ \E now \in {clock} :
         \/ EDoStart(now)
         \/ EDoSubmitGuess(now)
         \/ EDoAdvanceIfNeeded(now)

SpecSkew == InitExplain /\ [][NextSkew]_vars

\* C19 as stated: an accepted correct guess raises the guesser's points by a
\* value in 1..10, whatever the now of the call (later than the deadline or
\* earlier than RoundStarted too); and a SubmitGuess, with any text, by the
\* player who has won the round the game is still in returns (false, nil).
C19_AwardInRange ==
    [][last'.op = "SubmitGuess" =>
         LET gm == IF last'.game = "word" THEN g ELSE eg
             gm2 == IF last'.game = "word" THEN g' ELSE eg'
             p == last'.player
             adv == Advance(gm.TimedRounds, last'.now)
         IN  /\ last'.ok
                  => (gm2.Players[p].Points - gm.Players[p].Points) \in 1..10
             /\ (/\ gm.Status = "in_progress"
                 /\ p # NoPlayer
                 /\ gm.RoundWinnerID = p
                 /\ adv.t = gm.TimedRounds)
                  => ~last'.ok /\ last'.err = ""]_vars

(***************************************************************************)
(* The explain game's awards as a function of the time of the guess: a     *)
(* round of some duration started at RoundStart, and two guesses of it at  *)
(* now1 <= now2.  Times here are in units as fine as the duration allows.  *)
(***************************************************************************)
MaxSpan == 12

\* How far before the round's start a guess may be timed.
MaxEarly == 2

\* The round's start, late enough for a now before it.
RoundStart == MaxEarly + 1

\* A started round of the given duration.
RoundOf(duration) ==
    TimedRoundsStart(NewTimedRounds(1, duration, DefaultCooldown), RoundStart)

PCall(t, now1, now2) ==
    [op |-> "GuessAwards", t |-> t, now1 |-> now1, now2 |-> now2,
     first |-> GuessAwards(t, now1), second |-> GuessAwards(t, now2)]

InitPoints ==
    /\ last = [op |-> "none"]
    /\ clock = 1
    /\ bc = "none"
    /\ lk = "none"
    /\ rooms = "none"
    /\ g = "none"
    /\ prevSnap = NoSnap
    /\ tr = "none"
    /\ eg = "none"
    /\ ewon = 0
    /\ mu = "none"
    /\ hnd = "none"
    /\ elp = "none"
    /\ rs = "none"
    /\ spawning = 0
    /\ gor = "none"

\* Two correct guesses of the same round, the second no earlier than the first
PGuessTwice ==
    /\ \E duration \in 1..MaxSpan :
         \E now1 \in 1..(RoundStart + duration + 2) :
           \E now2 \in now1..(RoundStart + duration + 2) :
              last' = PCall(RoundOf(duration), now1, now2)
    /\ UNCHANGED <<tr, g, prevSnap, clock, eg, ewon, explainLoopVars, storeVars,
                   fanoutVars>>

NextPoints == PGuessTwice

SpecPoints == InitPoints /\ [][NextPoints]_vars

\* C20: for a fixed round, the guesser's award and the explainer's award do
\* not grow with the elapsed time now - RoundStarted, and in every submission
\* the guesser's award is at least the explainer's; both are at least 1.
C20_AwardsMonotone ==
    (last.op = "GuessAwards")
        => /\ last.second.guesser <= last.first.guesser
           /\ last.second.explainer <= last.first.explainer
           /\ last.first.guesser >= last.first.explainer
           /\ last.second.guesser >= last.second.explainer
           /\ last.first.explainer >= 1 /\ last.second.explainer >= 1

\* C20 witness: of two guesses of one round, the later one, made after the
\* deadline, earns the floor of 1 for both players, and the earlier one earned
\* the guesser more than the explainer.
C20_Witness ==
    /\ last.op = "GuessAwards"
    /\ last.now1 > last.t.RoundStarted
    /\ last.now2 > last.t.RoundStarted + last.t.Duration
    /\ last.first.guesser > last.first.explainer
    /\ last.first.explainer > 1
    /\ last.second.guesser = 1 /\ last.second.explainer = 1

(***************************************************************************)
(* The room's loop under fair scheduling: a goroutine that can take a step *)
(* takes it, and a registered loop is spawned.  Nothing obliges a handler  *)
(* to call, or the clock to go on.                                         *)
(***************************************************************************)
LoopStep(i) ==
    \/ GNow(i)
    \/ GNextTimer(i)
    \/ GAdvance(i)
    \/ GNextTimer2(i)
    \/ GPublish(i)
    \/ GSleep(i)
    \/ GExit(i)

FairLoop ==
    /\ WF_vars(DoGo)
    /\ \A i \in 1..MaxGoroutines : WF_vars(LoopStep(i))

SpecLoopFair == InitLoop /\ [][NextLoop]_vars /\ FairLoop

\* C21 as stated: Wake is a no-op when no loop is registered; at most one wake
\* is pending; and every Wake made while a loop is registered is followed by
\* a tick of the loop that starts after it.
C21_WakeLeadsToTick ==
    /\ [](rs.wake <= 1)
    /\ [][(last'.op = "Wake" /\ ~rs.loops) => (~last'.ok /\ rs' = rs)]_vars
    /\ (last.op = "Wake" /\ last.ok) ~> (last.op = "LoopNow")

\* C21 amended: as above, except that the tick need not follow when the loop
\* ends first (its tick returned stop and the loop removed its entries).
C21_WakeLeadsToTickOrExit ==
    /\ [](rs.wake <= 1)
    /\ [][(last'.op = "Wake" /\ ~rs.loops) => (~last'.ok /\ rs' = rs)]_vars
    /\ [][(last'.op = "Wake" /\ rs.loops) => (last'.ok /\ rs'.wake = 1)]_vars
    /\ (last.op = "Wake" /\ last.ok) ~> (last.op = "LoopNow" \/ ~rs.loops)

\* C21 witness: a Wake has left a wake pending for a loop that sleeps with
\* its timer not yet due.
C21_Witness ==
    /\ last.op = "Wake" /\ last.ok
    /\ rs.wake = 1
    /\ \E i \in 1..MaxGoroutines : gor[i].pc = "sleep" /\ gor[i].next > clock

(***************************************************************************)
(* Claims about the round counter and the end of the schedule.             *)
(***************************************************************************)

\* C22: with Rounds >= 1, CurrentRound is 0 exactly while the schedule has
\* never been started (RoundStarted is the zero time) and otherwise lies in
\* 1..Rounds; Advance never increments it past Rounds.
C22_CurrentRoundInRange ==
    /\ tr.Rounds >= 1
    /\ (tr.CurrentRound = 0) <=> IsZero(tr.RoundStarted)
    /\ tr.CurrentRound \in 0..tr.Rounds

\* C22 witness: Advance was called in the last round with its cooldown over,
\* and CurrentRound stayed at Rounds.
C22_Witness ==
    /\ last.op = "Advance" /\ last.advanced /\ last.finished
    /\ tr.CurrentRound = tr.Rounds

\* C23: finished is terminal.  The AdvanceIfNeeded that finishes the game
\* changes no field of TimedRounds (RoundEndedAt is not reset); on a finished
\* game an Advance with any now would change no field of TimedRounds; and
\* AdvanceIfNeeded on a finished game returns false and changes nothing.
C23_FinishedIsTerminal ==
    /\ [][(last'.op = "AdvanceIfNeeded" /\ g.Status = "in_progress"
             /\ g'.Status = "finished")
            => (last'.ok /\ g'.TimedRounds = g.TimedRounds
                /\ g.TimedRounds.CurrentRound = g.TimedRounds.Rounds
                /\ ~IsZero(g'.TimedRounds.RoundEndedAt))]_vars
    /\ [](g.Status = "finished"
            => \A now \in Times :
                 Advance(g.TimedRounds, now).t = g.TimedRounds)
    /\ [][(last'.op = "AdvanceIfNeeded" /\ g.Status = "finished")
            => (~last'.ok /\ g' = g)]_vars

\* C23 witness: AdvanceIfNeeded was called on a finished game, after the time
\* at which the schedule finished.
C23_Witness ==
    /\ last.op = "AdvanceIfNeeded" /\ ~last.ok
    /\ g.Status = "finished"
    /\ last.now > g.TimedRounds.RoundEndedAt + g.TimedRounds.Cooldown

(***************************************************************************)
(* Claims about NextWake.                                                  *)
(***************************************************************************)

\* C24 as stated: NextWake(now) reports active=false, with the zero time,
\* exactly when the schedule was never started; when active, the time it
\* returns is never earlier than now.
C24_NextWakeNotBeforeNow ==
    last.op = "NextWake"
      => /\ last.active <=> ~IsZero(tr.RoundStarted)
         /\ ~last.active => IsZero(last.wake)
         /\ last.active => last.wake >= last.now

\* A schedule whose last round has ended and whose cooldown is over at now:
\* Advance(now) reports finished.
Finished(t, now) ==
    /\ ~IsZero(t.RoundEndedAt)
    /\ t.CurrentRound >= t.Rounds
    /\ now >= t.RoundEndedAt + t.Cooldown

\* C29 as stated: for an active schedule that is not finished, the time w
\* returned by NextWake(now) is the earliest time from now on at which Advance
\* produces a transition: Advance(w) returns advanced=true and Advance(t)
\* returns (false,false) for every t with now <= t < w.
C29_NextWakeIsEarliestAdvance ==
    (last.op = "NextWake" /\ last.active /\ ~Finished(tr, last.now))
      => /\ Advance(tr, last.wake).advanced
         /\ \A t \in Times :
              (last.now <= t /\ t < last.wake)
                => (~Advance(tr, t).advanced /\ ~Advance(tr, t).finished)

(***************************************************************************)
(* A panic in a tick (pkg/realtime/store.go, RunLoop).  The loop goroutine *)
(* calls tick with no recover on its stack: its one deferred function      *)
(* deletes loops[id] and wakes[id] and returns, after which the Go runtime *)
(* ends the program.  rooms.alive is "the process is running".             *)
(***************************************************************************)
InitPanic ==
    /\ rooms = [s |-> NewRoomStoreMaps,
                created |-> [id \in RoomIDs |-> NoState],
                alive |-> TRUE]
    /\ last = SCall("none", 0, FALSE, NoState)
    /\ clock = 1
    /\ bc = "none"
    /\ lk = "none"
    /\ g = "none"
    /\ prevSnap = NoSnap
    /\ tr = "none"
    /\ eg = "none"
    /\ ewon = 0
    /\ mu = "none"
    /\ hnd = "none"
    /\ elp = "none"
    /\ rs = "none"
    /\ spawning = 0
    /\ gor = "none"

\* One turn of the loop of room id whose tick returns with stop=false: the
\* select was left by the timer (a pending wake stays) or by the wake.
STick(id) ==
    /\ rooms.alive
    /\ rooms.s.loops[id]
    /\ \E w \in {rooms.s.wakes[id], 0} :
         rooms' = [rooms EXCEPT !.s.wakes[id] = w]
    /\ last' = SCall("Tick", id, TRUE, NoState)
    /\ UNCHANGED roomsOther

\* One turn of the loop of room id whose tick panics: the deferred function
\* runs, nothing recovers, the program ends.
STickPanic(id) ==
    /\ rooms.alive
    /\ rooms.s.loops[id]
    /\ rooms' = [rooms EXCEPT !.s = RoomLoopExit(rooms.s, id), !.alive = FALSE]
    /\ last' = SCall("TickPanic", id, FALSE, NoState)
    /\ UNCHANGED roomsOther

\* Nothing runs in a process that has ended.
NextPanic ==
    \/ rooms.alive /\ NextStore
    \/ \E id \in RoomIDs : STick(id) \/ STickPanic(id)

SpecPanic == InitPanic /\ [][NextPanic]_vars

\* C25 as stated: a panic raised inside the tick of one room's loop is
\* contained to that room: the process keeps running, the loops of the other
\* rooms stay registered and can tick, and the store can still be used.
C25_TickPanicContained ==
    last.op = "TickPanic"
      => /\ rooms.alive
         /\ \A id \in RoomIDs \ {last.id} :
              rooms.s.loops[id] => ENABLED STick(id)
         /\ \A id \in RoomIDs : ENABLED (rooms.alive /\ SGet(id))

(***************************************************************************)
(* The locks of one room: the store's s.mu (sync.RWMutex), the game's g.mu *)
(* and the broadcaster's b.mu (sync.Mutex), used by request handlers and   *)
(* by the room's loop goroutine.  Every operation is the sequence of lock  *)
(* calls it makes, in the order of its code.                               *)
(***************************************************************************)
MaxHandlers == 2

Handlers == 1..MaxHandlers
LoopThread == MaxHandlers + 1
Threads == 1..LoopThread
NoThread == 0

\* Any method of Game that locks: AddPlayer, Start, Restart, SubmitGuess,
\* Snapshot, NextTimer, AdvanceIfNeeded.  None calls the store, a broadcaster
\* or another locking method of Game before it unlocks.
GameMethod == <<"g.Lock", "g.Unlock">>

\* RoomStore.Get (Store.GetGame, and the loop's getState)
StoreGet == <<"s.RLock", "s.RUnlock">>

\* RoomStore.Broadcaster
StoreBroadcaster == <<"s.Lock", "s.Unlock">>

\* Broadcaster.Subscribe, Unsubscribe, Publish: the sends in Publish do not block
HubMethod == <<"b.Lock", "b.Unlock">>

\* Mutant of StorePublish: the hub is published to before s.mu is released.
StorePublishUnderStoreLock == <<"s.Lock", "b.Lock", "b.Unlock", "s.Unlock">>

\* RoomStore.Publish: Broadcaster(id) returns, then hub.Publish(event)
StorePublish == StoreBroadcaster \o HubMethod

\* RoomStore.Wake: the channel is read under RLock, the send follows the unlock
StoreWake == <<"s.RLock", "s.RUnlock">>

\* RoomStore.RunLoop up to "go func()" (Store.EnsureRoundLoop)
StoreRunLoop == <<"s.Lock", "loops.register", "s.Unlock">>

\* The operations a request handler makes
HandlerOps ==
    {"AddPlayer", "Start", "Restart", "SubmitGuess", "Snapshot", "GetGame",
     "Publish", "Subscribe", "Unsubscribe", "Wake", "EnsureRoundLoop"}

OpSteps(op) ==
    CASE op \in {"AddPlayer", "Start", "Restart", "SubmitGuess", "Snapshot"} -> GameMethod
      [] op = "GetGame" -> StoreGet
      [] op = "Publish" -> StorePublish
      [] op = "Subscribe" -> StoreBroadcaster \o HubMethod
      [] op = "Unsubscribe" -> HubMethod
      [] op = "Wake" -> StoreWake
      [] op = "EnsureRoundLoop" -> StoreRunLoop

\* The loop goroutine's deferred function
LoopDeferred == <<"s.Lock", "loops.delete", "s.Unlock">>

\* One turn of the loop goroutine with EnsureRoundLoop's tick: getState, then
\* NextTimer; AdvanceIfNeeded; when advanced NextTimer again and three events
\* published; then the select, or the deferred function when tick said stop.
LoopTurns ==
    { StoreGet \o LoopDeferred,
      StoreGet \o GameMethod \o LoopDeferred,
      StoreGet \o GameMethod \o GameMethod \o <<"select">>,
      StoreGet \o GameMethod \o GameMethod \o GameMethod \o LoopDeferred,
      StoreGet \o GameMethod \o GameMethod \o GameMethod
        \o StorePublish \o StorePublish \o StorePublish \o <<"select">> }

IsAcquire(step) == step \in {"s.Lock", "s.RLock", "g.Lock", "b.Lock"}
IsRelease(step) == step \in {"s.Unlock", "s.RUnlock", "g.Unlock", "b.Unlock"}
IsLocal(step) == step \in {"loops.register", "loops.delete", "select"}

\* The thread has called the acquire at the head of its steps.
Calling(l, th, step) ==
    l.pc[th] # << >> /\ Head(l.pc[th]) = step /\ l.req[th]

\* sync.RWMutex, as the Go runtime implements it.  Lock first takes the
\* writers' mutex rw.w and announces itself (l.ann), then waits until the
\* readers that hold the lock have left.  RLock returns at once when no writer
\* is announced and waits otherwise; Unlock admits every waiting reader before
\* it lets go of rw.w, so readers and writers take turns.
\*
\* Whether the acquire the thread has called can make progress:
Grantable(l, th, step) ==
    CASE step = "g.Lock" -> l.g = NoThread
      [] step = "b.Lock" -> l.b = NoThread
      [] step = "s.Lock" -> l.ann = NoThread \/ (l.ann = th /\ l.sr = {})
      [] step = "s.RLock" -> FALSE

\* The progress it makes: the lock, or for Lock on s.mu first the announcement.
Granted(l, th, step) ==
    CASE step = "g.Lock" -> [l EXCEPT !.g = th, !.pc[th] = Tail(@), !.req[th] = FALSE]
      [] step = "b.Lock" -> [l EXCEPT !.b = th, !.pc[th] = Tail(@), !.req[th] = FALSE]
      [] step = "s.Lock" ->
           IF l.ann = NoThread
           THEN [l EXCEPT !.ann = th]
           ELSE [l EXCEPT !.sw = th, !.pc[th] = Tail(@), !.req[th] = FALSE]

\* Calling an acquire: RLock with no writer announced returns with the read
\* lock; every other call waits.
Called(l, th, step) ==
    IF step = "s.RLock" /\ l.ann = NoThread
    THEN [l EXCEPT !.sr = @ \cup {th}, !.pc[th] = Tail(@)]
    ELSE [l EXCEPT !.req[th] = TRUE]

Released(l, th, step) ==
    CASE step = "g.Unlock" -> [l EXCEPT !.g = NoThread, !.pc[th] = Tail(@)]
      [] step = "b.Unlock" -> [l EXCEPT !.b = NoThread, !.pc[th] = Tail(@)]
      [] step = "s.RUnlock" -> [l EXCEPT !.sr = @ \ {th}, !.pc[th] = Tail(@)]
      [] step = "s.Unlock" ->
           LET readers == {t \in Threads : Calling(l, t, "s.RLock")}
           IN  [l EXCEPT !.sw = NoThread, !.ann = NoThread, !.sr = readers,
                         !.pc = [t \in Threads |->
                                   IF t = th \/ t \in readers
                                   THEN Tail(l.pc[t]) ELSE l.pc[t]],
                         !.req = [t \in Threads |->
                                    IF t \in readers THEN FALSE ELSE l.req[t]]]

\* The locks a thread holds
Held(l, th) ==
    (IF l.sw = th \/ th \in l.sr THEN {"s"} ELSE {})
      \cup (IF l.g = th THEN {"g"} ELSE {})
      \cup (IF l.b = th THEN {"b"} ELSE {})

LCallRec(op, th, step) == [op |-> op, th |-> th, step |-> step]

InitLocks ==
    /\ lk = [pc |-> [th \in Threads |-> << >>],
             req |-> [th \in Threads |-> FALSE],
             sw |-> NoThread, sr |-> {}, ann |-> NoThread,
             g |-> NoThread, b |-> NoThread, loops |-> FALSE]
    /\ last = LCallRec("none", NoThread, "")
    /\ clock = 1
    /\ bc = "none"
    /\ rooms = "none"
    /\ g = "none"
    /\ prevSnap = NoSnap
    /\ tr = "none"
    /\ eg = "none"
    /\ ewon = 0
    /\ mu = "none"
    /\ hnd = "none"
    /\ elp = "none"
    /\ rs = "none"
    /\ spawning = 0
    /\ gor = "none"

locksOther ==
    <<tr, g, prevSnap, clock, eg, ewon, explainLoopVars, storeVars, bc, rooms>>

\* A handler begins an operation.
LBegin(th) ==
    /\ th \in Handlers
    /\ lk.pc[th] = << >>
    /\ \E op \in HandlerOps :
         /\ lk' = [lk EXCEPT !.pc[th] = OpSteps(op)]
         /\ last' = LCallRec(op, th, "")
    /\ UNCHANGED locksOther

\* The loop goroutine begins a turn of its for-loop.
LLoopBegin ==
    /\ lk.loops
    /\ lk.pc[LoopThread] = << >>
    /\ \E turn \in LoopTurns :
         lk' = [lk EXCEPT !.pc[LoopThread] = turn]
    /\ last' = LCallRec("tick", LoopThread, "")
    /\ UNCHANGED locksOther

\* A thread calls Lock or RLock.
LCall(th) ==
    /\ lk.pc[th] # << >>
    /\ IsAcquire(Head(lk.pc[th]))
    /\ ~lk.req[th]
    /\ lk' = Called(lk, th, Head(lk.pc[th]))
    /\ last' = LCallRec("call", th, Head(lk.pc[th]))
    /\ UNCHANGED locksOther

\* A call that waits makes progress.
LAcquire(th) ==
    /\ lk.pc[th] # << >>
    /\ lk.req[th]
    /\ Grantable(lk, th, Head(lk.pc[th]))
    /\ lk' = Granted(lk, th, Head(lk.pc[th]))
    /\ last' = LCallRec("acquire", th, Head(lk.pc[th]))
    /\ UNCHANGED locksOther

\* A thread calls Unlock or RUnlock.
LRelease(th) ==
    /\ lk.pc[th] # << >>
    /\ IsRelease(Head(lk.pc[th]))
    /\ lk' = Released(lk, th, Head(lk.pc[th]))
    /\ last' = LCallRec("release", th, Head(lk.pc[th]))
    /\ UNCHANGED locksOther

\* The steps between lock calls: RunLoop's registration of loops[id] (none
\* when an entry exists), the deferred delete, and the loop's select, which
\* the timer or a wake ends.
LLocal(th) ==
    /\ lk.pc[th] # << >>
    /\ IsLocal(Head(lk.pc[th]))
    /\ lk' = [lk EXCEPT !.pc[th] = Tail(@),
                        !.loops = CASE Head(lk.pc[th]) = "loops.register" -> TRUE
                                    [] Head(lk.pc[th]) = "loops.delete" -> FALSE
                                    [] OTHER -> @]
    /\ last' = LCallRec("local", th, Head(lk.pc[th]))
    /\ UNCHANGED locksOther

NextLocks ==
    \/ LLoopBegin
    \/ \E th \in Threads :
         \/ LBegin(th)
         \/ LCall(th)
         \/ LAcquire(th)
         \/ LRelease(th)
         \/ LLocal(th)

\* Running threads keep running, and a Lock that can be taken again and again
\* is taken (sync.Mutex hands the lock to a waiter that starves).  Requests
\* need not arrive.
FairLocks ==
    /\ WF_vars(LLoopBegin)
    /\ \A th \in Threads :
         /\ WF_vars(LCall(th))
         /\ WF_vars(LRelease(th))
         /\ WF_vars(LLocal(th))
         /\ SF_vars(LAcquire(th))

SpecLocksFair == InitLocks /\ [][NextLocks]_vars /\ FairLocks

\* C26: no interleaving of handler operations and the background loop
\* deadlocks.  No thread calls Lock or RLock while it holds a lock (so no
\* thread takes the store lock or a broadcaster lock while holding a game
\* lock, and no cycle of waiting threads can form); whenever a thread waits,
\* some thread can take a step; and every Lock or RLock that is called
\* eventually returns.
C26_NoDeadlock ==
    /\ [](\A th \in Threads :
            /\ Cardinality(Held(lk, th)) <= 1
            /\ (lk.pc[th] # << >> /\ IsAcquire(Head(lk.pc[th])))
                 => Held(lk, th) = {})
    /\ []((\E th \in Threads : lk.req[th])
            => \E t \in Threads :
                 ENABLED (LAcquire(t) \/ LRelease(t) \/ LLocal(t)))
    /\ \A th \in Threads : lk.req[th] ~> ~lk.req[th]

\* C26 witness: the loop goroutine holds the store's read lock in getState,
\* one handler has called Lock on the store and waits for that reader, and the
\* other handler has called RLock and waits behind the announced writer.
C26_Witness ==
    \E h1, h2 \in Handlers :
        /\ h1 # h2
        /\ LoopThread \in lk.sr
        /\ Calling(lk, h1, "s.Lock") /\ lk.ann = h1
        /\ Calling(lk, h2, "s.RLock")

(***************************************************************************)
(* Claims about Restart and the cooldown between rounds.                   *)
(***************************************************************************)

\* C27: Restart(now) keeps the game's ID, the roster (player ids and names)
\* and the owner, sets every player's Points and Progress to 0, sets
\* CurrentRound to 1 with RoundStarted = now, clears RoundEndedAt and the round
\* winner, keeps Rounds, Duration and Cooldown, and leaves the status
\* in_progress.
C27_RestartFrame ==
    [][last'.op = "Restart"
        => /\ g'.ID = g.ID
           /\ DOMAIN g'.Players = DOMAIN g.Players
           /\ \A p \in DOMAIN g.Players :
                /\ g'.Players[p].Username = g.Players[p].Username
                /\ g'.Players[p].Points = 0
                /\ g'.Players[p].Progress = 0
           /\ g'.OwnerID = g.OwnerID
           /\ g'.TimedRounds = [g.TimedRounds EXCEPT !.CurrentRound = 1,
                                                     !.RoundStarted = last'.now,
                                                     !.RoundEndedAt = 0]
           /\ g'.RoundWinnerID = NoPlayer
           /\ g'.Status = "in_progress"]_vars

\* C27 witness: a game with a full roster was restarted after its first
\* round had been played.
C27_Witness ==
    /\ last.op = "Restart"
    /\ last.now > 1 + g.TimedRounds.Duration
    /\ Cardinality(DOMAIN g.Players) = MaxPlayers
    /\ g.TimedRounds.CurrentRound = 1
    /\ g.TimedRounds.RoundStarted = last.now

\* C28: the cooldown is measured from RoundEndedAt.  Whenever a step starts
\* the next round (CurrentRound increments, the new RoundStarted being the now
\* of the call), the round before had ended and that now is at or after its
\* RoundEndedAt + Cooldown; and RoundEndedAt, when a step sets it, is the
\* deadline RoundStarted+Duration (the round timed out) or the now of the
\* SubmitGuess that solved the round.
C28_CooldownFromRoundEnd ==
    /\ [][(g.TimedRounds.CurrentRound >= 1
             /\ g'.TimedRounds.CurrentRound = g.TimedRounds.CurrentRound + 1)
            => /\ ~IsZero(g.TimedRounds.RoundEndedAt)
               /\ g'.TimedRounds.RoundStarted
                    >= g.TimedRounds.RoundEndedAt + g.TimedRounds.Cooldown]_vars
    /\ [][(IsZero(g.TimedRounds.RoundEndedAt) /\ ~IsZero(g'.TimedRounds.RoundEndedAt))
            => \/ g'.TimedRounds.RoundEndedAt
                    = g.TimedRounds.RoundStarted + g.TimedRounds.Duration
               \/ /\ last'.op = "SubmitGuess" /\ last'.ok
                  /\ g'.TimedRounds.RoundEndedAt = last'.now
                  /\ g'.RoundWinnerID = last'.player]_vars

\* C28 witness: the loop's tick has just started round 2, at the now it read.
C28_Witness ==
    \E i \in 1..MaxGoroutines :
        /\ gor[i].pc = "nextTimer2"
        /\ gor[i].advanced
        /\ g.TimedRounds.CurrentRound = 2
        /\ g.TimedRounds.RoundStarted = gor[i].now
        /\ IsZero(g.TimedRounds.RoundEndedAt)

(***************************************************************************)
(* Claims about the explainer.                                             *)
(***************************************************************************)

\* C30 as stated: in the explain game the explainer never scores as a
\* guesser: whenever a round has a winner, the winner is not the explainer of
\* that round, and a SubmitGuess that returned true was not made by the
\* player who is the explainer after the call.
C30_ExplainerNeverWins ==
    /\ eg.RoundWinnerID # NoPlayer => eg.RoundWinnerID # eg.ExplainerID
    /\ (last.op = "SubmitGuess" /\ last.ok) => last.player # eg.ExplainerID

(***************************************************************************)
(* Claims about the explain game's rounds.                                 *)
(***************************************************************************)

\* C31 as stated: the explainer is assigned once per round by rotation.  A
\* step that brings an in-progress game into another round, whichever call
\* makes it, leaves as ExplainerID the player at index (r-1) mod n of the
\* roster in id order, r being the new round; a step within a round of an
\* in-progress game, a join included, leaves ExplainerID as it is.
C31_ExplainerByRotation ==
    [][/\ (eg'.Status = "in_progress"
             /\ eg'.TimedRounds.CurrentRound # eg.TimedRounds.CurrentRound)
            => eg'.ExplainerID = Explainer(eg')
       /\ (eg.Status = "in_progress" /\ eg'.Status = "in_progress"
             /\ eg'.TimedRounds.CurrentRound = eg.TimedRounds.CurrentRound)
            => eg'.ExplainerID = eg.ExplainerID]_vars

\* The indices in RevealedIndices
RevealedSet(gm) == {gm.RevealedIndices[k] : k \in 1..Len(gm.RevealedIndices)}

\* C32 as stated: letter reveal is monotonic within a round.  While
\* CurrentRound stays the same an index once revealed stays revealed; in a
\* round of an in-progress game no index is revealed before 50% of the round's
\* duration has elapsed, at most one before 75%, and never more than two
\* distinct indices.
C32_RevealMonotone ==
    /\ [][(eg.Status = "in_progress" /\ eg'.Status = "in_progress"
             /\ eg'.TimedRounds.CurrentRound = eg.TimedRounds.CurrentRound)
            => RevealedSet(eg) \subseteq RevealedSet(eg')]_vars
    /\ [](eg.Status = "in_progress"
            => /\ 2 * (clock - eg.TimedRounds.RoundStarted) < eg.TimedRounds.Duration
                    => eg.RevealedIndices = << >>
               /\ 4 * (clock - eg.TimedRounds.RoundStarted) < 3 * eg.TimedRounds.Duration
                    => Len(eg.RevealedIndices) <= 1
               /\ Len(eg.RevealedIndices) <= 2
               /\ Cardinality(RevealedSet(eg)) = Len(eg.RevealedIndices))

(***************************************************************************)
(* What Snapshot returns to a viewer (explain/game.go, the return of       *)
(* Snapshot); index i of the model is index i-1 of the Go string.          *)
(***************************************************************************)
\* The letters a word list may hold at a position.
Letters == {"a", "b"}

\* Mutant of revealedWord: the indices are not consulted.
revealedWordUnmasked(word, indices) == word

\* revealedWord: the word with '_' at every index that is not in indices
revealedWord(word, indices) ==
    IF word = << >> THEN << >>
    ELSE [i \in 1..Len(word) |->
            IF \E k \in 1..Len(indices) : indices[k] = i THEN word[i] ELSE "_"]

\* The Snapshot value built from the game once Snapshot has advanced it, for
\* the viewer playerID; a name is stood for by the id it is looked up with.
ESnapshotView(gm, playerID) ==
    [Status |-> gm.Status,
     CurrentRound |-> gm.TimedRounds.CurrentRound,
     Rounds |-> gm.TimedRounds.Rounds,
     RoundDuration |-> gm.TimedRounds.Duration,
     RoundStarted |-> gm.TimedRounds.RoundStarted,
     RoundEndedAt |-> gm.TimedRounds.RoundEndedAt,
     NextRoundAt |-> IF gm.TimedRounds.RoundEndedAt # 0
                     THEN gm.TimedRounds.RoundEndedAt + gm.TimedRounds.Cooldown
                     ELSE 0,
     WordLength |-> Len(gm.Word),
     RevealedWord |-> IF gm.RoundWinnerID # NoPlayer THEN gm.Word
                      ELSE revealedWord(gm.Word, gm.RevealedIndices),
     Word |-> IF playerID = gm.ExplainerID THEN gm.Word ELSE << >>,
     ExplainerID |-> gm.ExplainerID,
     Canvas |-> gm.Canvas,
     Players |-> [p \in DOMAIN gm.Players |-> p = gm.ExplainerID],
     Scores |-> [p \in DOMAIN gm.Players |-> gm.Players[p].Points],
     RoundWinnerName |-> IF gm.RoundWinnerID \in DOMAIN gm.Players
                         THEN gm.RoundWinnerID ELSE NoPlayer,
     IsExplainer |-> playerID = gm.ExplainerID,
     IsGuesser |-> playerID # NoPlayer /\ playerID # gm.ExplainerID]

\* The words that differ from word only at indices that are not revealed.
SameRevealed(word, indices) ==
    {w \in [1..Len(word) -> Letters] :
        \A k \in 1..Len(indices) :
            indices[k] \in 1..Len(word) => w[indices[k]] = word[indices[k]]}

\* C33: a Snapshot of an in-progress explain game, taken for a viewer who is
\* not the explainer, carries no Word; while the round has no winner its
\* RevealedWord has the word's letter at the revealed indices and '_'
\* everywhere else, and the game with any other word that has the same letters
\* at the revealed indices is left in the same state by Snapshot and gives the
\* viewer the same Snapshot.
C33_WordOnlyForExplainer ==
    [][(last'.op = "Snapshot" /\ eg'.Status = "in_progress") =>
         \A viewer \in (PlayerIDs \cup {NoPlayer}) \ {eg'.ExplainerID} :
            LET v == ESnapshotView(eg', viewer)
            IN  /\ v.Word = << >>
                /\ eg'.RoundWinnerID = NoPlayer =>
                     /\ Len(v.RevealedWord) = Len(eg'.Word)
                     /\ \A i \in 1..Len(eg'.Word) :
                          v.RevealedWord[i] =
                            IF i \in RevealedSet(eg') THEN eg'.Word[i] ELSE "_"
                     /\ \A w \in SameRevealed(eg'.Word, eg'.RevealedIndices) :
                          /\ ESnapshotView([eg' EXCEPT !.Word = w], viewer) = v
                          /\ [eg' EXCEPT !.Word = w] \in
                               {r.g : r \in ESnapshot([eg EXCEPT !.Word = w],
                                                      last'.now)}]_vars

\* A guesser's Snapshot in a round without winner, one letter revealed, while
\* another word has the same letter there.
C33_Witness ==
    /\ last.op = "Snapshot"
    /\ eg.Status = "in_progress"
    /\ eg.RoundWinnerID = NoPlayer
    /\ Len(eg.RevealedIndices) = 1
    /\ eg.ExplainerID \in PlayerIDs
    /\ \E p \in DOMAIN eg.Players : p # eg.ExplainerID
    /\ SameRevealed(eg.Word, eg.RevealedIndices) \ {eg.Word} # {}

(***************************************************************************)
(* A round ended by a guess, and the loop's timer.                         *)
(***************************************************************************)
\* The round of gm was ended by a correct guess before its deadline.
EndedEarly(gm) ==
    /\ gm.Status = "in_progress"
    /\ ~IsZero(gm.TimedRounds.RoundEndedAt)
    /\ gm.TimedRounds.RoundEndedAt
         < gm.TimedRounds.RoundStarted + gm.TimedRounds.Duration

\* When the round is over for the players: the end of the cooldown.
CooldownEnd(gm) == gm.TimedRounds.RoundEndedAt + gm.TimedRounds.Cooldown

\* C34: once a correct guess at t has ended the round before its deadline,
\* a tick of the loop derives its timer from t: the timer is t + Cooldown (now,
\* when that has passed); a tick whose now is at or after t + Cooldown starts
\* the next round at its now or finishes the game, and an earlier tick leaves
\* the round as it is and sleeps; and after the handler's Wake the loop comes
\* to sleep on a timer no later than t + Cooldown, unless the round has gone
\* on or the loop has ended before that.
C34_WakeRederivesTimer ==
    /\ [][\A i \in 1..MaxGoroutines :
            (gor[i].pc = "nextTimer" /\ gor'[i].pc = "advance" /\ EndedEarly(g))
               => gor'[i].next = IF gor[i].now > CooldownEnd(g) THEN gor[i].now
                                 ELSE CooldownEnd(g)]_vars
    /\ [][\A i \in 1..MaxGoroutines :
            (gor[i].pc = "advance" /\ gor'[i].pc # "advance" /\ EndedEarly(g)
               /\ gor[i].now >= CooldownEnd(g))
               => \/ g'.Status = "finished"
                  \/ /\ g'.TimedRounds.CurrentRound = g.TimedRounds.CurrentRound + 1
                     /\ g'.TimedRounds.RoundStarted = gor[i].now
                     /\ IsZero(g'.TimedRounds.RoundEndedAt)]_vars
    /\ [][\A i \in 1..MaxGoroutines :
            (gor[i].pc = "advance" /\ gor'[i].pc # "advance" /\ EndedEarly(g)
               /\ gor[i].now < CooldownEnd(g))
               => g' = g /\ gor'[i].pc = "sleep"]_vars
    /\ (last.op = "Wake" /\ last.ok /\ EndedEarly(g))
         ~> \/ ~rs.loops
            \/ ~EndedEarly(g)
            \/ \E i \in 1..MaxGoroutines :
                 gor[i].pc = "sleep" /\ gor[i].next <= CooldownEnd(g)

\* C34 witness: woken after an early guess, the loop sleeps until the end of
\* the cooldown, which comes before the round's deadline.
C34_Witness ==
    /\ EndedEarly(g)
    /\ rs.wake = 0
    /\ \E i \in 1..MaxGoroutines :
         /\ gor[i].pc = "sleep"
         /\ gor[i].next = CooldownEnd(g)
         /\ gor[i].next > clock
         /\ gor[i].next < g.TimedRounds.RoundStarted + g.TimedRounds.Duration

(***************************************************************************)
(* The room's loop with time going on.  The timer of the loop's select     *)
(* fires when it is due and a started goroutine runs, both well within a   *)
(* unit of the clock: the clock moves on only while no goroutine is about  *)
(* to start and every loop sleeps, either with no wake pending on a timer  *)
(* that is not due, or after a tick at this time that found nothing to do  *)
(* (a timer set for the deadline itself fires at once, and the tick does   *)
(* nothing until the deadline has passed).  Time cannot be held up for     *)
(* ever: whenever it can pass again and again, it does.                    *)
(***************************************************************************)
GTimePrompt ==
    /\ spawning = 0
    /\ \A i \in 1..MaxGoroutines :
         \/ gor[i].pc = "none"
         \/ /\ gor[i].pc = "sleep"
            /\ \/ gor[i].next > clock /\ rs.wake = 0
               \/ gor[i].now = clock /\ ~gor[i].advanced
    /\ clock < MaxTime
    /\ clock' = clock + 1
    /\ last' = GCall("Tick", 0, NoPlayer, FALSE, "")
    /\ UNCHANGED <<g, prevSnap, storeVars, tr, eg, ewon, explainLoopVars, fanoutVars>>

\* roundFragment and the other page requests: instance.Snapshot(now); ok
\* records whether the call applied a due transition
GSnapshot(now) ==
    /\ \E r \in {Snapshot(g, now)} :
         /\ g' = r.g
         /\ last' = GCall("Snapshot", now, NoPlayer, r.g # g, "")
    /\ prevSnap' = NoSnap
    /\ UNCHANGED <<clock, gameOther>>

NextLoopTimed ==
    \/ GTimePrompt
    \/ DoRunLoop
    \/ DoGo
    \/ DoWake
    \/ \E now \in {clock} :
         \/ DoStart(now)
         \/ GSubmitGuess(now)
         \/ GSnapshot(now)
    \/ \E i \in 1..MaxGoroutines :
         \/ GNow(i)
         \/ GNextTimer(i)
         \/ GAdvance(i)
         \/ GNextTimer2(i)
         \/ GPublish(i)
         \/ GSleep(i)
         \/ GExit(i)

SpecLoopTimed ==
    InitLoop /\ [][NextLoopTimed]_vars /\ FairLoop /\ SF_vars(GTimePrompt)

\* The time at which a game in progress is finished by ticks made at every
\* unit of the clock from now on; past MaxTime when that is beyond the clock
\* of the model.
RECURSIVE FinishTime(_, _)
FinishTime(gm, now) ==
    IF gm.Status = "finished" THEN now
    ELSE IF now > MaxTime THEN MaxTime + 1
    ELSE LET r == advanceIfNeededLocked(gm, now)
         IN  IF r.ret THEN FinishTime(r.g, now) ELSE FinishTime(gm, now + 1)

\* The room's loop is registered and is not on its way out: no goroutine has
\* had stop from its tick.
LoopRunning ==
    rs.loops /\ \A i \in 1..MaxGoroutines : gor[i].pc # "exit"

\* The latest time the loop finishes the game: a loop that has not been woken
\* after a guess sleeps until the round's deadline.
LatestFinish(gm, now) ==
    FinishTime(IF EndedEarly(gm) THEN [gm EXCEPT !.TimedRounds.RoundEndedAt = 0]
               ELSE gm, now)

\* The calls a handler makes, as last records them.
HandlerCalls == {"Start", "SubmitGuess", "Snapshot", "Wake", "RunLoop"}

\* C35: when the handlers' calls come to an end, a started game whose loop is
\* running reaches finished by the timer alone (when its schedule ends within
\* the clock of the model); once the game
\* is finished (and no timer of the loop is set beyond the clock of the
\* model) the loop's entries in loops and wakes are removed and no goroutine
\* of the loop is left; the loop's return removes both entries; and
\* a RunLoop that finds no entry registers a loop and starts a goroutine.
C35_LoopFinishesAndExits ==
    /\ (<>[](last.op \notin HandlerCalls))
         => ((g.Status = "in_progress" /\ LoopRunning
                /\ LatestFinish(g, clock) <= MaxTime)
               ~> (g.Status = "finished"))
    /\ (g.Status = "finished" /\ \A i \in 1..MaxGoroutines : gor[i].next <= MaxTime)
         ~> (~rs.loops /\ rs.wake = 0 /\ LiveLoops = {} /\ spawning = 0)
    /\ [][\A i \in 1..MaxGoroutines :
            (gor[i].pc = "exit" /\ gor'[i].pc = "none") => rs' = NewRoomStore]_vars
    /\ [][(last'.op = "RunLoop" /\ ~rs.loops)
            => (last'.ok /\ rs'.loops /\ rs'.wake = 0
                  /\ spawning' = spawning + 1)]_vars

\* C35 witness: the game of two rounds has been finished by the loop, the loop
\* has gone with its entries, and a RunLoop has registered a new loop.
C35_Witness ==
    /\ g.Status = "finished"
    /\ g.TimedRounds.Rounds = MaxRounds
    /\ g.TimedRounds.CurrentRound = MaxRounds
    /\ g.RoundWinnerID = NoPlayer
    /\ last.op = "RunLoop" /\ last.ok
    /\ rs.loops /\ spawning = 1 /\ LiveLoops = {}

(***************************************************************************)
(* The room's loop and the owner's restart.  startGame and restartGame     *)
(* call EnsureRoundLoop after Start and Restart, so RunLoop is never       *)
(* called for a game in the lobby.                                         *)
(***************************************************************************)
\* startGame, restartGame: h.store.EnsureRoundLoop(gameID, instance)
GEnsureRoundLoop ==
    /\ g.Status # "lobby"
    /\ DoRunLoop

NextRestart ==
    \/ GTime
    \/ GEnsureRoundLoop
    \/ DoGo
    \/ DoWake
    \/ \E now \in {clock} :
         \/ DoStart(now)
         \/ DoRestart(now)
         \/ GSubmitGuess(now)
    \/ \E i \in 1..MaxGoroutines :
         \/ GNow(i)
         \/ GNextTimer(i)
         \/ GAdvance(i)
         \/ GNextTimer2(i)
         \/ GPublish(i)
         \/ GSleep(i)
         \/ GExit(i)

SpecRestart == InitLoop /\ [][NextRestart]_vars

\* C36 as stated: when EnsureRoundLoop has returned for a game in progress,
\* the room has a running loop: one is registered, and no goroutine of it has
\* had stop from its tick and is about to return.
C36_RestartHasLoop ==
    (last.op = "RunLoop" /\ g.Status = "in_progress") => LoopRunning

(***************************************************************************)
(* Transitions applied by a handler's call, and the loop's events.         *)
(***************************************************************************)
\* C37 as stated: when the handlers' calls come to an end, a Snapshot that
\* has applied a due transition of a game whose loop is running is followed by
\* a turn of the loop that publishes "round".  (The game is finished, or its
\* schedule ends within the clock of the model.)
C37_HandlerTransitionAnnounced ==
    (<>[](last.op \notin HandlerCalls))
       => ((/\ last.op = "Snapshot" /\ last.ok
            /\ LoopRunning
            /\ g.Status = "finished" \/ LatestFinish(g, clock) <= MaxTime)
             ~> (\E i \in 1..MaxGoroutines : "round" \in gor[i].published))

(***************************************************************************)
(* The broadcaster's queues are closed once and never sent to afterwards.  *)
(***************************************************************************)
\* C38: under every interleaving of Subscribe, Unsubscribe and Publish, a
\* queue in the subscriber set has been made and is open; no Publish sends on
\* a closed queue (none panics); a queue is closed only by an Unsubscribe that
\* finds it open in the set, and an Unsubscribe of a queue that is already
\* closed closes nothing and leaves the broadcaster as it is.
C38_NoSendOrCloseOnClosed ==
    /\ [](\A c \in bc.b.subs : bc.b.ch[c].made /\ ~bc.b.ch[c].closed)
    /\ [][last'.op = "Publish" =>
            /\ last'.ok
            /\ \A c \in Chans : bc.b.ch[c].closed => bc'.b.ch[c] = bc.b.ch[c]]_vars
    /\ [][\A c \in Chans :
            (~bc.b.ch[c].closed /\ bc'.b.ch[c].closed)
               => /\ last'.op = "Unsubscribe" /\ last'.ch = c /\ last'.ok
                  /\ c \in bc.b.subs /\ c \notin bc'.b.subs]_vars
    /\ [][(last'.op = "Unsubscribe" /\ bc.b.ch[last'.ch].closed)
            => (~last'.ok /\ bc'.b = bc.b)]_vars

\* C38 witness: a queue has been unsubscribed a second time, after events
\* were published past its closure to the other subscriber.
C38_Witness ==
    /\ last.op = "Unsubscribe" /\ ~last.ok
    /\ bc.b.ch[last.ch].closed
    /\ \E d \in bc.b.subs :
         /\ d # last.ch
         /\ bc.b.ch[d].buf # << >>
         /\ bc.b.ch[last.ch].buf # << >>
         /\ bc.b.ch[d].buf[Len(bc.b.ch[d].buf)]
              > bc.b.ch[last.ch].buf[Len(bc.b.ch[last.ch].buf)]

====
